---- MODULE Spec2Model ----
(***************************************************************************)
(* Model of the prism backend (backend/app.py, backend/ast_coordinates.py): *)
(* AST coordinates, the call-graph extractor, the chunker, the semantic    *)
(* ranker and the path engine over the call graph.                         *)
(*                                                                         *)
(* A syntax tree is the pre-order sequence of its nodes below the Module   *)
(* root; node 0 is the Module.  Only the node kinds the code tells apart   *)
(* are kept (ClassDef, FunctionDef, AsyncFunctionDef, Call, Assign,        *)
(* Import, and If standing for any other compound statement); wrapper      *)
(* nodes (Expr, Name, arguments, ...) that no isinstance test selects are  *)
(* left out.  Fields that are copied from the node and never read again    *)
(* (params, docstring) are left out of the records.                        *)
(***************************************************************************)
EXTENDS Integers, Sequences, FiniteSets, TLC

\* ---------------------------------------------------------------- bounds
MaxNodes == 4
MaxPairNodes == 2
MaxChunks == 4
MaxTopK == 3
MaxCalls == 3
MaxChain == 7
MaxSearchCalls == 2
MaxFiles == 2

\* ------------------------------------------------------- python helpers
None == "None"

Range(s) == {s[j] : j \in 1..Len(s)}

\* getattr(node, attr, default) on an optional attribute, <<>> when absent
GetAttr(opt, default) == IF opt = <<>> THEN default ELSE opt[1]

\* dict with insertion order: a sequence of [key, val]; assigning to a key
\* that is present keeps its position and replaces its value
DictHas(d, k) == \E j \in 1..Len(d) : d[j].key = k
DictGet(d, k) == d[CHOOSE j \in 1..Len(d) : d[j].key = k].val
DictSet(d, k, v) ==
  IF DictHas(d, k)
  THEN [j \in 1..Len(d) |-> IF d[j].key = k THEN [key |-> k, val |-> v] ELSE d[j]]
  ELSE Append(d, [key |-> k, val |-> v])

\* ------------------------------------------------------------ the tree
Compound == {"ClassDef", "FunctionDef", "AsyncFunctionDef", "If"}
Simple == {"Call", "Assign", "Import"}

Kind(t, i) == IF i = 0 THEN "Module" ELSE t[i].kind
Depth(t, i) == IF i = 0 THEN 0 ELSE t[i].depth

\* the parent of the node at depth d that follows the first n nodes of t
ParentAt(t, n, d) ==
  IF d = 1 THEN 0
  ELSE CHOOSE j \in 1..n : /\ t[j].depth = d - 1
                           /\ \A k \in (j+1)..n : t[k].depth >= d
Parent(t, i) == ParentAt(t, i - 1, t[i].depth)

\* ast.iter_child_nodes(node): the children in field order
Children(t, i) ==
  LET Kid(j) == j > i /\ t[j].depth = Depth(t, i) + 1
                /\ \A k \in (i+1)..j : t[k].depth > Depth(t, i)
  IN SelectSeq([j \in 1..Len(t) |-> j], Kid)

LastInSubtree(t, i) ==
  CHOOSE j \in i..Len(t) :
    /\ \A k \in (i+1)..j : t[k].depth > t[i].depth
    /\ (j = Len(t) \/ t[j+1].depth <= t[i].depth)

\* node.lineno: a node with nl starts a new source line, one without it
\* stands on the line of the node before it
Line(t, i) == Cardinality({j \in 1..i : t[j].nl})
EndLine(t, i) == Line(t, LastInSubtree(t, i))
RECURSIVE Col(_, _)
Col(t, i) == IF t[i].nl THEN 4 * (t[i].depth - 1) ELSE Col(t, i - 1) + 4
EndCol(t, i) == Col(t, LastInSubtree(t, i)) + 3

\* the attributes ast.parse sets on a node: all present
Attrs(t, i) ==
  [kind |-> t[i].kind, lineno |-> Line(t, i), col_offset |-> <<Col(t, i)>>,
   end_lineno |-> <<EndLine(t, i)>>, end_col_offset |-> <<EndCol(t, i)>>]

\* ---------------------------------------------- the trees the parser gives
\* a label is a node without its depth
Lab(k, nm, fn, nl) == [kind |-> k, name |-> nm, func |-> fn, nl |-> nl]

\* may a node with label l follow the nodes of t at depth d?
CanAppend(t, l, d) ==
  LET n == Len(t)
      p == ParentAt(t, n, d)
  IN /\ IF n = 0 THEN d = 1 ELSE d <= t[n].depth + 1
     /\ (n > 0 /\ d = t[n].depth + 1) => t[n].kind \in Compound
     /\ l.kind \in Compound => l.nl
     \* a simple statement shares a line with its parent (a one-line body)
     \* or with the simple statement before it (a; b)
     /\ ~l.nl => /\ n > 0
                 /\ \/ d = t[n].depth + 1
                    \/ (t[n].depth = d /\ t[n].kind \in Simple)
     \* a one-line body has no statement on a later line
     /\ (l.nl /\ d > 1 /\ p # n) => t[p + 1].nl

\* the call-graph family: every node on a line of its own
CallLabels ==
  { Lab("ClassDef", nm, <<>>, TRUE) : nm \in {"A", "B"} }
  \cup { Lab("FunctionDef", nm, <<>>, TRUE) : nm \in {"a", "c"} }
  \cup { Lab("Call", "", fn, TRUE) : fn \in {<<"a">>, <<"b">>} }
  \cup { Lab("If", "", <<>>, TRUE) }

\* ------------------------------------------------------ ast coordinates
\* create_ast_reference's node_id: an absent col_offset is formatted as 0
NodeId(n) ==
  n.kind \o "_" \o ToString(n.lineno) \o "_" \o ToString(GetAttr(n.col_offset, 0))

StructuralKinds == {"ClassDef", "FunctionDef", "AsyncFunctionDef"}

\* get_node_path(node): the path without a tree
get_node_path(n) ==
  IF n.kind \in StructuralKinds THEN <<"Module", n.kind>> ELSE <<"Module">>

\* find_path inside get_node_path_from_tree: <<>> when the target is not
\* below node
RECURSIVE find_path(_, _, _, _), find_path_children(_, _, _, _)
RECURSIVE find_path_children_Shared(_, _, _, _)
find_path(t, node, target_node, current_path) ==
  IF node = target_node THEN current_path
  ELSE LET new_path == IF Kind(t, node) \in StructuralKinds
                       THEN Append(current_path, Kind(t, node))
                       ELSE current_path
       IN find_path_children(t, Children(t, node), target_node, new_path)

\* mutant: the path list is shared instead of copied, so the kinds of the
\* siblings searched before stay on it
find_path_children_Shared(t, kids, target_node, new_path) ==
  IF kids = <<>> THEN <<>>
  ELSE LET result == find_path(t, Head(kids), target_node, new_path)
       IN IF result # <<>> THEN result
          ELSE find_path_children_Shared(t, Tail(kids), target_node,
                 IF Kind(t, Head(kids)) \in StructuralKinds
                 THEN Append(new_path, Kind(t, Head(kids))) ELSE new_path)

find_path_children(t, kids, target_node, new_path) ==
  IF kids = <<>> THEN <<>>
  ELSE LET result == find_path(t, Head(kids), target_node, new_path)
       IN IF result # <<>> THEN result
          ELSE find_path_children(t, Tail(kids), target_node, new_path)

get_node_path_from_tree(t, target_node) ==
  LET path == <<"Module">>
      result == find_path(t, 0, target_node, path)
  IN IF result # <<>> THEN result ELSE path

\* create_ast_reference(node, tree): n the node's attributes, path the
\* node_path the call computes
AstRef(n, path) ==
  [node_id |-> NodeId(n), line |-> n.lineno, col |-> n.col_offset,
   end_line |-> GetAttr(n.end_lineno, n.lineno), end_col |-> n.end_col_offset,
   node_type |-> n.kind, node_path |-> path]
create_ast_reference(t, node, with_tree) ==
  AstRef(Attrs(t, node),
         IF with_tree THEN get_node_path_from_tree(t, node)
         ELSE get_node_path(Attrs(t, node)))

\* enhance_function_with_ast_refs(function_info, function_node, tree)
enhance_function_with_ast_refs(function_info, t, function_node) ==
  [name |-> function_info.name, class_name |-> function_info.class_name,
   calls |-> function_info.calls, lineno |-> function_info.lineno,
   ast_ref |-> create_ast_reference(t, function_node, TRUE)]

\* ------------------------------------------------- extract_function_calls
GLOBAL == "__global__"

\* the callee expression of a Call is a Name or an Attribute chain on a
\* Name, kept as the sequence of its identifiers
RECURSIVE get_full_name(_)
get_full_name(func) ==
  IF Len(func) = 1 THEN func[1]
  ELSE get_full_name(SubSeq(func, 1, Len(func) - 1)) \o "." \o func[Len(func)]

\* mutant: the class context is dropped from the key
StorageKey_NoClass(current_class, name) == name

StorageKey(current_class, name) ==
  IF current_class # None THEN current_class \o "." \o name ELSE name

\* acc holds the three collections the closure writes: functions,
\* function_nodes (dicts) and calls (list)
RECURSIVE visit_node(_, _, _, _, _), visit_children(_, _, _, _, _)
visit_node(t, node, current_function, current_class, acc) ==
  IF Kind(t, node) = "ClassDef"
  THEN visit_children(t, Children(t, node), current_function, t[node].name, acc)
  ELSE IF Kind(t, node) = "FunctionDef"
  THEN LET function_info == [name |-> t[node].name, class_name |-> current_class,
                             calls |-> <<>>, lineno |-> Line(t, node)]
           storage_key == StorageKey(current_class, t[node].name)
           acc1 == [acc EXCEPT !.functions = DictSet(@, storage_key, function_info),
                               !.function_nodes = DictSet(@, storage_key, node)]
       IN visit_children(t, Children(t, node), storage_key, current_class, acc1)
  ELSE IF Kind(t, node) = "Call" /\ current_function # None
  THEN LET func_name == get_full_name(t[node].func)
           info == DictGet(acc.functions, current_function)
           acc1 == [acc EXCEPT
                     !.functions = IF func_name \in Range(info.calls) THEN @
                                   ELSE DictSet(@, current_function,
                                          [info EXCEPT !.calls = Append(@, func_name)]),
                     !.calls = Append(@, [caller |-> current_function,
                                          callee |-> func_name,
                                          lineno |-> Line(t, node)])]
       IN visit_children(t, Children(t, node), current_function, current_class, acc1)
  ELSE visit_children(t, Children(t, node), current_function, current_class, acc)
visit_children(t, kids, current_function, current_class, acc) ==
  IF kids = <<>> THEN acc
  ELSE visit_children(t, Tail(kids), current_function, current_class,
                      visit_node(t, Head(kids), current_function, current_class, acc))

GlobalDescends_Always(kind) == TRUE

\* if not isinstance(node, ast.FunctionDef): visit the children
GlobalDescends(kind) == kind # "FunctionDef"

RECURSIVE extract_global_calls(_, _, _), extract_global_children(_, _, _)
extract_global_calls(t, node, calls) ==
  LET calls1 == IF Kind(t, node) = "Call"
                THEN Append(calls, [caller |-> GLOBAL,
                                    callee |-> get_full_name(t[node].func),
                                    lineno |-> Line(t, node)])
                ELSE calls
  IN IF GlobalDescends(Kind(t, node))
     THEN extract_global_children(t, Children(t, node), calls1)
     ELSE calls1
extract_global_children(t, kids, calls) ==
  IF kids = <<>> THEN calls
  ELSE extract_global_children(t, Tail(kids), extract_global_calls(t, Head(kids), calls))

global_pass_Skipped(t, calls) == calls

\* extract_global_calls(tree): the second pass, from the Module
global_pass(t, calls) == extract_global_calls(t, 0, calls)

extract_function_calls(t) ==
  LET acc == visit_node(t, 0, None, None,
                        [functions |-> <<>>, function_nodes |-> <<>>, calls |-> <<>>])
      calls == global_pass(t, acc.calls)
      enhanced_functions ==
        [j \in 1..Len(acc.functions) |->
           enhance_function_with_ast_refs(acc.functions[j].val, t,
                                          DictGet(acc.function_nodes, acc.functions[j].key))]
  IN [functions |-> enhanced_functions, calls |-> calls]

\* ast.walk(tree): breadth first, from a queue
RECURSIVE walk(_, _, _)
walk(t, todo, out) ==
  IF todo = <<>> THEN out
  ELSE walk(t, Tail(todo) \o Children(t, Head(todo)), Append(out, Head(todo)))

\* create_line_to_ast_mapping(tree): line -> nodes on it, in walk order
\* (the Module has no lineno)
create_line_to_ast_mapping(t) ==
  LET order == walk(t, <<0>>, <<>>)
      lines == {Line(t, i) : i \in 1..Len(t)}
  IN [l \in lines |-> SelectSeq(order, LAMBDA i : i # 0 /\ Line(t, i) = l)]

\* the first node of nodes whose kind is in K, as an optional
FirstOfKind(t, nodes, K) ==
  LET hits == SelectSeq(nodes, LAMBDA i : t[i].kind \in K)
  IN IF hits = <<>> THEN <<>> ELSE <<hits[1]>>

\* enhance_rag_result_with_ast_ref(result, tree, line_mapping); ast_ref is
\* <<>> when the result gets none
enhance_rag_result_with_ast_ref(result, t, line_mapping) ==
  LET line_start == result.line_start
      target_node ==
        IF line_start # 0 /\ line_start \in DOMAIN line_mapping
        THEN IF result.type = "function"
             THEN FirstOfKind(t, line_mapping[line_start], {"FunctionDef"})
             ELSE IF result.type = "class"
             THEN FirstOfKind(t, line_mapping[line_start], {"ClassDef"})
             ELSE FirstOfKind(t, line_mapping[line_start],
                              {"FunctionDef", "ClassDef", "Assign"})
        ELSE <<>>
  IN [result EXCEPT !.ast_ref =
        IF target_node # <<>>
        THEN <<create_ast_reference(t, target_node[1], FALSE)>> ELSE <<>>]

\* rag_query's loop over the search results: the base result of each chunk,
\* enhanced
RECURSIVE EnhanceAll(_, _, _)
EnhanceAll(cs, t, line_mapping) ==
  IF cs = <<>> THEN <<>>
  ELSE LET chunk == cs[Len(cs)]
       IN Append(EnhanceAll(SubSeq(cs, 1, Len(cs) - 1), t, line_mapping),
                 enhance_rag_result_with_ast_ref(
                   [type |-> chunk.type, name |-> chunk.name,
                    line_start |-> chunk.line_start, line_end |-> chunk.line_end,
                    ast_ref |-> <<>>],
                   t, line_mapping))

\* ------------------------------------------------ the class extractor
\* for item in node.body
ClassBody_Deep(t, node) == [k \in 1..(LastInSubtree(t, node) - node) |-> node + k]
ClassBody(t, node) == Children(t, node)

\* extract_class_info(node): methods and attributes of the class body
extract_class_info(t, node) ==
  LET body == ClassBody(t, node)
      methods == SelectSeq(body, LAMBDA i : t[i].kind = "FunctionDef")
      assigns == SelectSeq(body, LAMBDA i : t[i].kind = "Assign")
  IN [name |-> t[node].name,
      methods |-> [k \in 1..Len(methods) |->
                     [name |-> t[methods[k]].name, lineno |-> Line(t, methods[k]),
                      ast_ref |-> <<>>]],
      attributes |-> [k \in 1..Len(assigns) |-> t[assigns[k]].name],
      lineno |-> Line(t, node)]

\* enhance_class_with_ast_refs(class_info, class_node, tree): each method
\* gets the coordinate of the first body FunctionDef of its name and line
enhance_class_with_ast_refs(class_info, t, class_node) ==
  LET method_nodes == SelectSeq(Children(t, class_node),
                                LAMBDA i : t[i].kind = "FunctionDef")
      Match(mi) == SelectSeq(method_nodes,
                             LAMBDA i : mi.name = t[i].name /\ mi.lineno = Line(t, i))
  IN [name |-> class_info.name,
      methods |-> [k \in 1..Len(class_info.methods) |->
                     IF Match(class_info.methods[k]) # <<>>
                     THEN [class_info.methods[k] EXCEPT !.ast_ref =
                             <<create_ast_reference(t, Match(class_info.methods[k])[1], TRUE)>>]
                     ELSE class_info.methods[k]],
      attributes |-> class_info.attributes,
      lineno |-> class_info.lineno,
      ast_ref |-> create_ast_reference(t, class_node, TRUE)]

RECURSIVE visit_class_node(_, _, _), visit_class_children(_, _, _)
visit_class_node(t, node, classes) ==
  LET classes1 == IF Kind(t, node) = "ClassDef"
                  THEN Append(classes,
                              enhance_class_with_ast_refs(extract_class_info(t, node), t, node))
                  ELSE classes
  IN visit_class_children(t, Children(t, node), classes1)
visit_class_children(t, kids, classes) ==
  IF kids = <<>> THEN classes
  ELSE visit_class_children(t, Tail(kids), visit_class_node(t, Head(kids), classes))

extract_classes_from_ast(t) == visit_class_node(t, 0, <<>>)

\* ------------------------------------- the standalone-function extractor
RECURSIVE visit_function_node(_, _, _), visit_function_children(_, _, _)
visit_function_node(t, node, functions) ==
  IF Kind(t, node) = "FunctionDef"
  THEN Append(functions,
              enhance_function_with_ast_refs(
                [name |-> t[node].name, class_name |-> None, calls |-> <<>>,
                 lineno |-> Line(t, node)], t, node))
  ELSE IF Kind(t, node) = "ClassDef" THEN functions
  ELSE visit_function_children(t, Children(t, node), functions)
visit_function_children(t, kids, functions) ==
  IF kids = <<>> THEN functions
  ELSE visit_function_children(t, Tail(kids), visit_function_node(t, Head(kids), functions))

extract_functions_from_ast(t) == visit_function_node(t, 0, <<>>)

\* ------------------------------------------------------------ the source
\* the text of one node, as the source spells it
Token(t, i) ==
  LET base == CASE t[i].kind = "ClassDef" -> "class " \o t[i].name \o ":"
                [] t[i].kind = "FunctionDef" -> "def " \o t[i].name \o "():"
                [] t[i].kind = "AsyncFunctionDef" -> "async def " \o t[i].name \o "():"
                [] t[i].kind = "If" -> "if c:"
                [] t[i].kind = "Assign" -> t[i].name \o " = 1"
                [] t[i].kind = "Import" -> "import " \o t[i].name
                [] OTHER -> get_full_name(t[i].func) \o "()"
  IN IF t[i].kind \in Compound
     THEN IF Children(t, i) = <<>> THEN base \o " pass" ELSE base
     ELSE IF i < Len(t) /\ ~t[i + 1].nl THEN base \o ";" ELSE base

RECURSIVE JoinTokens(_, _)
JoinTokens(t, nodes) ==
  IF Len(nodes) = 1 THEN Token(t, nodes[1])
  ELSE JoinTokens(t, SubSeq(nodes, 1, Len(nodes) - 1)) \o " " \o Token(t, nodes[Len(nodes)])

NumLines(t) == Cardinality({j \in 1..Len(t) : t[j].nl})

\* code.split('\n'): one entry per source line, its indentation kept apart
\* from its text so that strip() can drop it
SourceLines(t) ==
  [l \in 1..NumLines(t) |->
     LET nodes == SelectSeq([j \in 1..Len(t) |-> j], LAMBDA j : Line(t, j) = l)
     IN [indent |-> 4 * (t[nodes[1]].depth - 1), text |-> JoinTokens(t, nodes)]]

Strip(line) == [indent |-> 0, text |-> line.text]

\* ast.unparse(node), taken when the line list is shorter than the tree
Unparse(t, node) == <<[indent |-> 0, text |-> Token(t, node)]>>

\* ------------------------------------------------------- chunk_code_by_ast
\* visit_FunctionDef / visit_ClassDef: the chunk of one definition
DefChunk(t, node, lines) ==
  LET start_line == Line(t, node) - 1
      end_line == GetAttr(Attrs(t, node).end_lineno, Line(t, node)) - 1
  IN [content |-> IF end_line < Len(lines)
                  THEN SubSeq(lines, start_line + 1, end_line + 1)
                  ELSE Unparse(t, node),
      type |-> IF t[node].kind = "FunctionDef" THEN "function" ELSE "class",
      name |-> t[node].name,
      line_start |-> Line(t, node),
      line_end |-> GetAttr(Attrs(t, node).end_lineno, Line(t, node))]

\* ChunkExtractor: NodeVisitor.visit with generic_visit for the other kinds
RECURSIVE ChunkExtractor(_, _, _, _), ChunkExtractorChildren(_, _, _, _)

\* mutant: visit_FunctionDef / visit_ClassDef without generic_visit
ChunkExtractor_NoDescent(t, node, lines, chunks) ==
  IF Kind(t, node) \in {"FunctionDef", "ClassDef"}
  THEN Append(chunks, DefChunk(t, node, lines))
  ELSE ChunkExtractorChildren(t, Children(t, node), lines, chunks)

ChunkExtractor(t, node, lines, chunks) ==
  IF Kind(t, node) \in {"FunctionDef", "ClassDef"}
  THEN ChunkExtractorChildren(t, Children(t, node), lines,
                              Append(chunks, DefChunk(t, node, lines)))
  ELSE ChunkExtractorChildren(t, Children(t, node), lines, chunks)
ChunkExtractorChildren(t, kids, lines, chunks) ==
  IF kids = <<>> THEN chunks
  ELSE ChunkExtractorChildren(t, Tail(kids), lines,
                              ChunkExtractor(t, Head(kids), lines, chunks))

InChunk_Never(chunks, lineno) == FALSE

\* chunk['line_start'] <= node.lineno <= chunk['line_end'] for some chunk
InChunk(chunks, lineno) ==
  \E k \in 1..Len(chunks) :
    chunks[k].line_start <= lineno /\ lineno <= chunks[k].line_end

\* the loop over ast.walk(tree) that collects the global statements
RECURSIVE GlobalStatements(_, _, _, _, _)
GlobalStatements(t, order, lines, chunks, global_statements) ==
  IF order = <<>> THEN global_statements
  ELSE LET node == Head(order)
           is_global == ~InChunk(chunks, Line(t, node))
           line_content == Strip(lines[Line(t, node)])
           take == /\ Kind(t, node) \in {"Import", "ImportFrom", "Assign"}
                   /\ is_global
                   /\ Line(t, node) <= Len(lines)
                   /\ line_content.text # ""
                   /\ line_content \notin Range(global_statements)
       IN GlobalStatements(t, Tail(order), lines, chunks,
                           IF take THEN Append(global_statements, line_content)
                           ELSE global_statements)

chunk_code_by_ast(t) ==
  LET lines == SourceLines(t)
      chunks == ChunkExtractor(t, 0, lines, <<>>)
      global_statements == GlobalStatements(t, walk(t, <<0>>, <<>>), lines, chunks, <<>>)
  IN IF global_statements # <<>>
     THEN Append(chunks, [content |-> global_statements, type |-> "global",
                          name |-> "Global scope", line_start |-> 1,
                          line_end |-> Len(global_statements)])
     ELSE chunks

\* the coordinate family: the structural kinds, a block and an assignment
CoordLabels ==
  { Lab("ClassDef", "A", <<>>, TRUE), Lab("FunctionDef", "f", <<>>, TRUE),
    Lab("AsyncFunctionDef", "g", <<>>, TRUE), Lab("If", "", <<>>, TRUE),
    Lab("Assign", "x", <<>>, TRUE) }

\* the statement family: definitions, blocks, assignments and imports
StmtLabels ==
  { Lab("ClassDef", "A", <<>>, TRUE), Lab("FunctionDef", "f", <<>>, TRUE),
    Lab("AsyncFunctionDef", "g", <<>>, TRUE), Lab("If", "", <<>>, TRUE),
    Lab("Assign", "x", <<>>, TRUE), Lab("Assign", "x", <<>>, FALSE),
    Lab("Import", "m", <<>>, TRUE) }

\* --------------------------------------------------------- semantic_search
\* similarities are kept in hundredths: 0.1 is 10
Floor == 10

Relevant_Inclusive(score) == score >= Floor

\* similarities[idx] > 0.1
Relevant(score) == score > Floor

Reverse(s) == [j \in 1..Len(s) |-> s[Len(s) + 1 - j]]

IndexOrders(n) ==
  {p \in [1..n -> 1..n] : \A i, j \in 1..n : i # j => p[i] # p[j]}

\* np.argsort(similarities): an index order with ascending values; the
\* default sort is not stable, so equal values come in any order
ArgSorts(similarities) ==
  {p \in IndexOrders(Len(similarities)) :
     \A i \in 1..(Len(similarities) - 1) :
       similarities[p[i]] <= similarities[p[i + 1]]}

\* semantic_search after the embedding calls, for one outcome of argsort
semantic_search(similarities, argsort, top_k) ==
  LET descending == Reverse(argsort)
      top_indices == SubSeq(descending, 1,
                            IF top_k < Len(descending) THEN top_k ELSE Len(descending))
      kept == SelectSeq(top_indices, LAMBDA idx : Relevant(similarities[idx]))
  IN [k \in 1..Len(kept) |-> [score |-> similarities[kept[k]], index |-> kept[k]]]

SimilarityValues == {5, 10, 30, 50, 90}

\* -------------------------------------------- find_paths_between_rag_nodes
max_depth_default == 5

Truthy(s) == s # ""

\* f"{class_name}.{func_name}" if class_name else func_name
full_func_name(func_info) ==
  IF func_info.class_name # None
  THEN func_info.class_name \o "." \o func_info.name
  ELSE func_info.name

\* caller_to_callees.get(f, []): the forward edges of f in call order
caller_to_callees(call_graph_calls, f) ==
  LET mine == SelectSeq(call_graph_calls,
                        LAMBDA call : Truthy(call.caller) /\ Truthy(call.callee)
                                      /\ call.caller = f)
  IN [k \in 1..Len(mine) |-> [node |-> mine[k].callee, call_line |-> mine[k].lineno]]

\* callee_to_callers.get(f, []): the reverse edges of f in call order
callee_to_callers(call_graph_calls, f) ==
  LET mine == SelectSeq(call_graph_calls,
                        LAMBDA call : Truthy(call.caller) /\ Truthy(call.callee)
                                      /\ call.callee = f)
  IN [k \in 1..Len(mine) |-> [node |-> mine[k].caller, call_line |-> mine[k].lineno]]

Tagged(direction, edges) ==
  [k \in 1..Len(edges) |-> [direction |-> direction, edge |-> edges[k]]]

\* mutant: the reverse edges are left out
edges_to_check_ForwardOnly(call_graph_calls, current_func) ==
  Tagged("caller_to_callee", caller_to_callees(call_graph_calls, current_func))

\* forward edges, then backward edges
edges_to_check(call_graph_calls, current_func) ==
  Tagged("caller_to_callee", caller_to_callees(call_graph_calls, current_func))
  \o Tagged("callee_to_caller", callee_to_callers(call_graph_calls, current_func))

PathStep(current_func, e) ==
  [from |-> current_func, to |-> e.edge.node, call_line |-> e.edge.call_line,
   direction |-> e.direction]

\* mutant: the visited set is not consulted
Unvisited_Always(next_func, visited) == TRUE

\* if next_func not in visited
Unvisited(next_func, visited) == next_func \notin visited

\* the for loop over edges_to_check for one dequeued item
RECURSIVE scan_edges(_, _, _, _, _)
scan_edges(es, cur, end_func, queue, visited) ==
  IF es = <<>>
  THEN [found |-> FALSE, path |-> <<>>, queue |-> queue, visited |-> visited]
  ELSE LET next_func == Head(es).edge.node
           new_path == Append(cur.path, PathStep(cur.node, Head(es)))
       IN IF next_func = end_func
          THEN [found |-> TRUE, path |-> new_path, queue |-> queue, visited |-> visited]
          ELSE IF Unvisited(next_func, visited)
          THEN scan_edges(Tail(es), cur, end_func,
                          Append(queue, [node |-> next_func, path |-> new_path,
                                         depth |-> cur.depth + 1]),
                          visited \cup {next_func})
          ELSE scan_edges(Tail(es), cur, end_func, queue, visited)

\* mutant: the item at the bound is still expanded
DepthReached_Late(depth, max_depth) == depth > max_depth

\* if depth >= max_depth: continue
DepthReached(depth, max_depth) == depth >= max_depth

\* the while loop; <<>> is None, <<path>> a path
RECURSIVE bfs(_, _, _, _, _)
bfs(call_graph_calls, end_func, max_depth, queue, visited) ==
  IF queue = <<>> THEN <<>>
  ELSE LET cur == Head(queue)
       IN IF DepthReached(cur.depth, max_depth)
          THEN bfs(call_graph_calls, end_func, max_depth, Tail(queue), visited)
          ELSE LET r == scan_edges(edges_to_check(call_graph_calls, cur.node), cur,
                                   end_func, Tail(queue), visited)
               IN IF r.found THEN <<r.path>>
                  ELSE bfs(call_graph_calls, end_func, max_depth, r.queue, r.visited)

find_shortest_path(call_graph_calls, start_func, end_func, max_depth) ==
  IF start_func = end_func THEN <<<<>>>>
  ELSE bfs(call_graph_calls, end_func, max_depth,
           <<[node |-> start_func, path |-> <<>>, depth |-> 0]>>, {start_func})

Abs(x) == IF x < 0 THEN -x ELSE x

\* the inner loop of the matching: the first record that matches the
\* coordinate, <<>> when none does
RECURSIVE match_function(_, _)
match_function(ast_ref, fs) ==
  IF fs = <<>> THEN <<>>
  ELSE LET func_info == Head(fs)
       IN IF "ast_ref" \in DOMAIN func_info
          THEN IF func_info.ast_ref.node_id = ast_ref.node_id
               THEN <<full_func_name(func_info)>>
               ELSE match_function(ast_ref, Tail(fs))
          ELSE IF func_info.lineno # 0 /\ ast_ref.line # 0
                  /\ Abs(func_info.lineno - ast_ref.line) <= 2
          THEN <<full_func_name(func_info)>>
          ELSE match_function(ast_ref, Tail(fs))

\* the matching loop: matched_nodes and rag_node_to_function
RECURSIVE match_results(_, _, _)
match_results(rag_results, call_graph_functions, acc) ==
  IF rag_results = <<>> THEN acc
  ELSE IF Head(rag_results).ast_ref = <<>>
  THEN match_results(Tail(rag_results), call_graph_functions, acc)
  ELSE LET ast_ref == Head(rag_results).ast_ref[1]
           hit == match_function(ast_ref, call_graph_functions)
       IN IF hit = <<>>
          THEN match_results(Tail(rag_results), call_graph_functions, acc)
          ELSE match_results(Tail(rag_results), call_graph_functions,
                 [matched_nodes |-> Append(acc.matched_nodes, ast_ref.node_id),
                  rag_node_to_function |->
                    DictSet(acc.rag_node_to_function, ast_ref.node_id, hit[1])])

\* mutant: one edge of the wanted direction is enough
path_type_Any(path) ==
  IF \E k \in 1..Len(path) : path[k].direction = "caller_to_callee"
  THEN "caller_to_callee"
  ELSE IF \E k \in 1..Len(path) : path[k].direction = "callee_to_caller"
  THEN "callee_to_caller"
  ELSE "bidirectional"

path_type(path) ==
  IF \A k \in 1..Len(path) : path[k].direction = "caller_to_callee"
  THEN "caller_to_callee"
  ELSE IF \A k \in 1..Len(path) : path[k].direction = "callee_to_caller"
  THEN "callee_to_caller"
  ELSE "bidirectional"

\* rag_node_to_function.get(next(key of func, ''), func)
NodeOf(rag_node_to_function, func) ==
  LET first == CHOOSE j \in 1..Len(rag_node_to_function) :
                 /\ rag_node_to_function[j].val = func
                 /\ \A i \in 1..(j - 1) : rag_node_to_function[i].val # func
  IN DictGet(rag_node_to_function, rag_node_to_function[first].key)

intermediate_nodes_All(path_nodes) == path_nodes

\* intermediate_nodes = path_nodes[1:-1]
intermediate_nodes(path_nodes) == SubSeq(path_nodes, 2, Len(path_nodes) - 1)

\* the record appended for a pair whose path is not empty
PathRecord(rag_node_to_function, func1, func2, path) ==
  LET path_nodes == <<func1>> \o [k \in 1..Len(path) |-> path[k].to]
      path_edges == [k \in 1..Len(path) |->
                       [from |-> path[k].from, to |-> path[k].to,
                        call_line |-> path[k].call_line]]
  IN [from_node |-> NodeOf(rag_node_to_function, func1),
      to_node |-> NodeOf(rag_node_to_function, func2),
      path_nodes |-> intermediate_nodes(path_nodes),
      path_edges |-> path_edges,
      path_length |-> Len(path_edges),
      path_type |-> path_type(path)]

PairTaken_Once(i, j) == i < j

\* if i != j
PairTaken(i, j) == i # j

\* the double loop over matched_functions from pair number p on, row by row
RECURSIVE PairPaths(_, _, _, _, _)
PairPaths(rag_node_to_function, call_graph_calls, max_depth, p, paths) ==
  LET n == Len(rag_node_to_function)
      i == ((p - 1) \div n) + 1
      j == ((p - 1) % n) + 1
      func1 == rag_node_to_function[i].val
      func2 == rag_node_to_function[j].val
      path == find_shortest_path(call_graph_calls, func1, func2, max_depth)
  IN IF p > n * n THEN paths
     ELSE IF PairTaken(i, j) /\ path # <<>> /\ path[1] # <<>>
     THEN PairPaths(rag_node_to_function, call_graph_calls, max_depth, p + 1,
                    Append(paths, PathRecord(rag_node_to_function, func1, func2, path[1])))
     ELSE PairPaths(rag_node_to_function, call_graph_calls, max_depth, p + 1, paths)

find_paths_between_rag_nodes(rag_results, call_graph_functions, call_graph_calls, max_depth) ==
  LET m == match_results(rag_results, call_graph_functions,
                         [matched_nodes |-> <<>>, rag_node_to_function |-> <<>>])
      paths == PairPaths(m.rag_node_to_function, call_graph_calls, max_depth, 1, <<>>)
  IN [matched_nodes |-> m.matched_nodes,
      paths |-> paths,
      unique_intermediate_nodes |->
        UNION {Range(paths[k].path_nodes) : k \in 1..Len(paths)},
      unique_edges |-> UNION {Range(paths[k].path_edges) : k \in 1..Len(paths)}]

\* the functions of the path family: top-level definitions A, B, C of one
\* file, the k-th at line 10 * (k - 1) + 1, module-level code from line 31
PathNames == <<"A", "B", "C">>
PathIndex(name) ==
  IF name = GLOBAL THEN Len(PathNames) + 1
  ELSE CHOOSE k \in 1..Len(PathNames) : PathNames[k] = name
PathLine(name) == 10 * (PathIndex(name) - 1) + 1
PathAttrs(name) ==
  [kind |-> "FunctionDef", lineno |-> PathLine(name), col_offset |-> <<0>>,
   end_lineno |-> <<PathLine(name) + 9>>, end_col_offset |-> <<8>>]

\* the record extract_function_calls keeps for a top-level definition
PathFunction(name) ==
  [name |-> name, class_name |-> None, calls |-> <<>>, lineno |-> PathLine(name),
   ast_ref |-> AstRef(PathAttrs(name), <<"Module">>)]

\* the retrieval result of the chunk of a top-level definition
PathResult(name) ==
  [content |-> <<>>, type |-> "function", name |-> name,
   line_start |-> PathLine(name), line_end |-> PathLine(name) + 9,
   ast_ref |-> <<AstRef(PathAttrs(name), get_node_path(PathAttrs(name)))>>]

\* the functions of the chain family: top-level definitions F1, F2, ...
\* of one file, the k-th at line 10 * (k - 1) + 1
ChainName(k) == "F" \o ToString(k)
ChainIndex(name) == CHOOSE k \in 1..(MaxChain + 1) : ChainName(k) = name
ChainLine(k) == 10 * (k - 1) + 1
ChainAttrs(k) ==
  [kind |-> "FunctionDef", lineno |-> ChainLine(k), col_offset |-> <<0>>,
   end_lineno |-> <<ChainLine(k) + 9>>, end_col_offset |-> <<8>>]
ChainFunction(k) ==
  [name |-> ChainName(k), class_name |-> None, calls |-> <<>>,
   lineno |-> ChainLine(k), ast_ref |-> AstRef(ChainAttrs(k), <<"Module">>)]
ChainResult(k) ==
  [content |-> <<>>, type |-> "function", name |-> ChainName(k),
   line_start |-> ChainLine(k), line_end |-> ChainLine(k) + 9,
   ast_ref |-> <<AstRef(ChainAttrs(k), get_node_path(ChainAttrs(k)))>>]

\* the call graph after the call of callee in the body of the caller-th
\* function is met: the edge takes its place in pre-order, after the calls
\* of the functions defined up to the caller, and the caller's summary gets
\* the callee if it is new
WithChainCall(cg, caller, callee) ==
  LET before == SelectSeq(cg.calls, LAMBDA c : ChainIndex(c.caller) <= caller)
      after == SelectSeq(cg.calls, LAMBDA c : ChainIndex(c.caller) > caller)
      own == Len(SelectSeq(cg.calls, LAMBDA c : ChainIndex(c.caller) = caller))
  IN [functions |->
        [k \in 1..Len(cg.functions) |->
           IF k = caller /\ ChainName(callee) \notin Range(cg.functions[k].calls)
           THEN [cg.functions[k] EXCEPT !.calls = Append(@, ChainName(callee))]
           ELSE cg.functions[k]],
      calls |-> before
                \o <<[caller |-> ChainName(caller), callee |-> ChainName(callee),
                      lineno |-> ChainLine(caller) + 1 + own]>>
                \o after]

\* ------------------------------------------------- analyze_codebase_files
\* a node of a tree: a label at a depth
At(l, d) ==
  [kind |-> l.kind, name |-> l.name, func |-> l.func, nl |-> l.nl, depth |-> d]

\* the trees of the files of a codebase:
\*   def a():        def c(): pass     class A:             x = 1             c()
\*       c()                               def a(): pass    def c(): pass
FileTrees ==
  { <<At(Lab("FunctionDef", "a", <<>>, TRUE), 1), At(Lab("Call", "", <<"c">>, TRUE), 2)>>,
    <<At(Lab("FunctionDef", "c", <<>>, TRUE), 1)>>,
    <<At(Lab("ClassDef", "A", <<>>, TRUE), 1), At(Lab("FunctionDef", "a", <<>>, TRUE), 2)>>,
    <<At(Lab("Assign", "x", <<>>, TRUE), 1), At(Lab("FunctionDef", "c", <<>>, TRUE), 1)>>,
    <<At(Lab("Call", "", <<"c">>, TRUE), 1)>> }

\* what a path of the file list holds: a file that cannot be opened, a file
\* of white space, text that is not Python, or Python text with its tree
FileContents ==
  {[state |-> st, tree |-> <<>>] : st \in {"unreadable", "blank", "invalid"}}
  \cup {[state |-> "python", tree |-> t] : t \in FileTrees}

FilePath(k) == "f" \o ToString(k) \o ".py"

\* for r in records: r['file_path'] = file_path
WithFilePath(records, file_path) ==
  [k \in 1..Len(records) |-> records[k] @@ [file_path |-> file_path]]

NoAnalysis ==
  [files |-> <<>>,
   combined_inheritance |-> [classes |-> <<>>, functions |-> <<>>],
   combined_callgraph |-> [functions |-> <<>>, calls |-> <<>>],
   errors |-> <<>>]

\* the body of the loop for one file
AnalyzeFile(combined_results, file_path, file) ==
  IF file.state = "unreadable"
  THEN [combined_results EXCEPT !.errors =
          Append(@, [file |-> file_path, error |-> "Could not read file"])]
  ELSE IF file.state = "blank" THEN combined_results
  ELSE IF file.state = "invalid"
  THEN [combined_results EXCEPT !.errors =
          Append(@, [file |-> file_path, error |-> "Syntax error"])]
  ELSE LET classes == WithFilePath(extract_classes_from_ast(file.tree), file_path)
           funcs == WithFilePath(extract_functions_from_ast(file.tree), file_path)
           call_info == extract_function_calls(file.tree)
           cg_functions == WithFilePath(call_info.functions, file_path)
           cg_calls == WithFilePath(call_info.calls, file_path)
       IN [files |-> Append(combined_results.files,
                            [file_path |-> file_path,
                             inheritance |-> [classes |-> classes, functions |-> funcs],
                             callgraph |-> [functions |-> cg_functions,
                                            calls |-> cg_calls]]),
           combined_inheritance |->
             [classes |-> combined_results.combined_inheritance.classes \o classes,
              functions |-> combined_results.combined_inheritance.functions \o funcs],
           combined_callgraph |->
             [functions |-> combined_results.combined_callgraph.functions \o cg_functions,
              calls |-> combined_results.combined_callgraph.calls \o cg_calls],
           errors |-> combined_results.errors]

\* mutant: the loop is left at the first file that fails
AfterFile_Abort(fs, k) ==
  IF fs[k].state \in {"unreadable", "invalid"} THEN Len(fs) + 1 ELSE k + 1

\* for file_path in file_paths: the file taken after the k-th
AfterFile(fs, k) == k + 1

\* analyze_codebase_files(file_paths) from the k-th file on
RECURSIVE analyze_codebase_files(_, _, _)
analyze_codebase_files(fs, k, combined_results) ==
  IF k > Len(fs) THEN combined_results
  ELSE analyze_codebase_files(fs, AfterFile(fs, k),
                              AnalyzeFile(combined_results, FilePath(k), fs[k]))

\* the request's directory_path: missing, not a directory, or a directory
Directories == {"", "nowhere", "dir"}

\* /api/analyze-codebase
analyze_codebase(directory_path, python_files) ==
  IF directory_path = ""
  THEN [status |-> 400, error |-> "Directory path is required"]
  ELSE IF directory_path # "dir"
  THEN [status |-> 400, error |-> "Invalid directory path"]
  ELSE IF python_files = <<>>
  THEN [status |-> 200, success |-> TRUE,
        message |-> "No Python files found in directory",
        files_analyzed |-> 0, files |-> <<>>,
        combined_analysis |-> [inheritance |-> NoAnalysis.combined_inheritance,
                               callgraph |-> NoAnalysis.combined_callgraph],
        errors |-> <<>>]
  ELSE LET analysis_results == analyze_codebase_files(python_files, 1, NoAnalysis)
       IN [status |-> 200, success |-> TRUE,
           files_analyzed |-> Len(analysis_results.files),
           files_found |-> Len(python_files),
           files |-> analysis_results.files,
           combined_analysis |-> [inheritance |-> analysis_results.combined_inheritance,
                                  callgraph |-> analysis_results.combined_callgraph],
           errors |-> analysis_results.errors]

\* ------------------------------------------------------ the ranking requests
\* semantic_search(query, code_chunks, embeddings): top_k=5
top_k_default == 5
\* semantic_search(query, chunk_contents, embeddings, top_k=10)
top_k_codebase == 10

\* similarities in hundredths: below and above the floor
Scores == {5, 90}

\* model.encode and cosine_similarity: one similarity per chunk, equal for
\* chunks of equal content
Similarities(contents) ==
  { [i \in 1..Len(contents) |-> score[contents[i]]] :
      score \in [Range(contents) -> Scores] }

\* np.argsort(similarities)[::-1]: the indices by descending similarity,
\* equal similarities in any order
RECURSIVE DescendingOrders(_, _)
DescendingOrders(sims, remaining) ==
  IF remaining = {} THEN {<<>>}
  ELSE LET top == {i \in remaining : \A j \in remaining : sims[j] <= sims[i]}
       IN UNION { { <<i>> \o rest : rest \in DescendingOrders(sims, remaining \ {i}) } :
                  i \in top }

\* [chunk['content'] for chunk in chunks]
ChunkContents(cs) == [k \in 1..Len(cs) |-> cs[k].content]

\* rag_query's loop over the search results
EnhanceResults(search_results, cs, t, line_mapping) ==
  [k \in 1..Len(search_results) |->
     LET chunk == cs[search_results[k].index]
     IN enhance_rag_result_with_ast_ref(
          [snippet |-> chunk.content, score |-> search_results[k].score,
           type |-> chunk.type, name |-> chunk.name,
           line_start |-> chunk.line_start, line_end |-> chunk.line_end,
           ast_ref |-> <<>>],
          t, line_mapping)]

\* the request's query: missing or given
Queries == {"", "q"}

\* the request's code: missing, or text as a file may hold it
Codes ==
  {[state |-> "empty", tree |-> <<>>]}
  \cup {c \in FileContents : c.state # "unreadable"}

\* /api/rag-query, for one outcome of the embedding and of argsort
rag_query(code, query, mdl, sims, order) ==
  IF code.state = "empty" \/ query = ""
  THEN [status |-> 400, error |-> "Code and query are required"]
  ELSE IF code.state = "invalid"
  THEN [status |-> 500, success |-> FALSE, error |-> "Error processing query"]
  ELSE LET t == code.tree
           line_mapping == create_line_to_ast_mapping(t)
           cs == chunk_code_by_ast(t)
       IN IF cs = <<>>
          THEN [status |-> 400, error |-> "No code chunks found"]
          ELSE IF mdl = None
          THEN [status |-> 500, success |-> FALSE, error |-> "Error processing query"]
          ELSE LET search_results == semantic_search(sims, Reverse(order), top_k_default)
                   enhanced_results == EnhanceResults(search_results, cs, t, line_mapping)
                   call_info == extract_function_calls(t)
               IN [status |-> 200, success |-> TRUE,
                   results |-> enhanced_results,
                   visualization_data |->
                     [inheritance |-> [classes |-> extract_classes_from_ast(t),
                                       functions |-> extract_functions_from_ast(t)],
                      callgraph |->
                        [functions |-> call_info.functions,
                         calls |-> call_info.calls,
                         rag_paths |-> find_paths_between_rag_nodes(
                                         enhanced_results, call_info.functions,
                                         call_info.calls, max_depth_default)]]]

\* the loop that collects the chunks of the files from the k-th on: a file
\* that cannot be read, is blank or does not parse gives none
RECURSIVE CollectChunks(_, _, _)
CollectChunks(fs, k, all_chunks) ==
  IF k > Len(fs) THEN all_chunks
  ELSE CollectChunks(fs, k + 1,
                     IF fs[k].state = "python"
                     THEN all_chunks \o WithFilePath(chunk_code_by_ast(fs[k].tree),
                                                     FilePath(k))
                     ELSE all_chunks)

PathIndexIn(fs, file_path) == CHOOSE k \in 1..Len(fs) : FilePath(k) = file_path

\* rag_query_codebase's loop over the search results: the tree is parsed
\* anew only for a file that is not in processed_files; t is the optional
\* tree the iteration before left
RECURSIVE EnhanceCodebaseResults(_, _, _, _, _, _)
EnhanceCodebaseResults(search_results, all_chunks, fs, processed_files, t, enhanced_results) ==
  IF search_results = <<>> THEN enhanced_results
  ELSE LET result == Head(search_results)
           chunk == all_chunks[result.index]
           file_path == chunk.file_path
           file == fs[PathIndexIn(fs, file_path)]
           fresh == file_path \notin processed_files
           parsed == file.state \in {"python", "blank"}
           tree1 == IF fresh THEN (IF parsed THEN <<file.tree>> ELSE <<>>) ELSE t
           line_mapping == IF tree1 # <<>> THEN create_line_to_ast_mapping(tree1[1])
                           ELSE << >>
           base_result == [snippet |-> chunk.content, score |-> result.score,
                           type |-> chunk.type, name |-> chunk.name,
                           line_start |-> chunk.line_start,
                           line_end |-> chunk.line_end,
                           file_path |-> file_path, ast_ref |-> <<>>]
           enhanced_result ==
             IF tree1 # <<>> /\ DOMAIN line_mapping # {}
             THEN enhance_rag_result_with_ast_ref(base_result, tree1[1], line_mapping)
             ELSE base_result
       IN EnhanceCodebaseResults(Tail(search_results), all_chunks, fs,
                                 IF fresh /\ parsed
                                 THEN processed_files \cup {file_path}
                                 ELSE processed_files,
                                 tree1, Append(enhanced_results, enhanced_result))

NoVisualization ==
  [inheritance |-> [classes |-> <<>>, functions |-> <<>>],
   callgraph |-> [functions |-> <<>>, calls |-> <<>>]]

\* /api/rag-query-codebase, for one outcome of the embedding and of argsort
rag_query_codebase(directory_path, query, python_files, mdl, sims, order) ==
  IF directory_path = "" \/ query = ""
  THEN [status |-> 400, error |-> "Directory path and query are required"]
  ELSE IF directory_path # "dir"
  THEN [status |-> 400, error |-> "Invalid directory path"]
  ELSE IF python_files = <<>>
  THEN [status |-> 200, success |-> TRUE,
        message |-> "No Python files found in directory",
        results |-> <<>>, visualization_data |-> NoVisualization]
  ELSE LET all_chunks == CollectChunks(python_files, 1, <<>>)
       IN IF all_chunks = <<>>
          THEN [status |-> 200, success |-> TRUE,
                message |-> "No valid code chunks found",
                results |-> <<>>, visualization_data |-> NoVisualization]
          ELSE IF mdl = None
          THEN [status |-> 500, success |-> FALSE,
                error |-> "Error processing codebase query"]
          ELSE LET search_results == semantic_search(sims, Reverse(order), top_k_codebase)
                   enhanced_results ==
                     EnhanceCodebaseResults(search_results, all_chunks, python_files,
                                            {}, <<>>, <<>>)
                   analysis_results == analyze_codebase_files(python_files, 1, NoAnalysis)
               IN [status |-> 200, success |-> TRUE,
                   files_processed |-> Len(python_files),
                   chunks_processed |-> Len(all_chunks),
                   results |-> enhanced_results,
                   visualization_data |->
                     [inheritance |-> analysis_results.combined_inheritance,
                      callgraph |->
                        [functions |-> analysis_results.combined_callgraph.functions,
                         calls |-> analysis_results.combined_callgraph.calls,
                         rag_paths |-> find_paths_between_rag_nodes(
                                         enhanced_results,
                                         analysis_results.combined_callgraph.functions,
                                         analysis_results.combined_callgraph.calls,
                                         max_depth_default)]]]

\* hand-built and parsed nodes: (kind, lineno) with optional position
\* attributes
NodeAttrs ==
  [kind : {"FunctionDef", "ClassDef", "Assign"}, lineno : {1, 11},
   col_offset : {<<>>, <<0>>, <<1>>, <<11>>},
   end_lineno : {<<>>, <<12>>}, end_col_offset : {<<>>}]

VARIABLES tree, op, callgraph, classes, functions, chunks, results,
          nodes, refs, similarities, top_k, search_results, rag_paths,
          queue, visited, enqueued, end_func, found_path,
          files, model, response

treeVars == <<tree, callgraph, classes, functions, chunks, results>>
nodeVars == <<nodes, refs>>
rankVars == <<similarities, top_k, search_results>>
searchVars == <<queue, visited, enqueued, end_func, found_path>>
batchVars == <<files, model, response>>
vars == <<tree, op, callgraph, classes, functions, chunks, results,
          nodes, refs, similarities, top_k, search_results, rag_paths,
          queue, visited, enqueued, end_func, found_path,
          files, model, response>>

NoCallGraph == [functions |-> <<>>, calls |-> <<>>]
NoPaths == [matched_nodes |-> <<>>, paths |-> <<>>,
            unique_intermediate_nodes |-> {}, unique_edges |-> {}]

Init ==
  /\ tree = <<>>
  /\ op = "source"
  /\ callgraph = NoCallGraph
  /\ classes = <<>>
  /\ functions = <<>>
  /\ chunks = <<>>
  /\ results = <<>>
  /\ nodes = <<>>
  /\ refs = <<>>
  /\ similarities = <<>>
  /\ top_k = 0
  /\ search_results = <<>>
  /\ rag_paths = NoPaths
  /\ queue = <<>>
  /\ visited = {}
  /\ enqueued = <<>>
  /\ end_func = ""
  /\ found_path = <<>>
  /\ files = <<>>
  /\ model = "unloaded"
  /\ response = [status |-> 0]

\* the syntax tree provider (ast.parse) delivers the next node in pre-order
Provide(L) ==
  /\ op = "source"
  /\ Len(tree) < MaxNodes
  /\ \E l \in L, d \in 1..MaxNodes :
       /\ CanAppend(tree, l, d)
       /\ tree' = Append(tree, [kind |-> l.kind, name |-> l.name, func |-> l.func,
                                nl |-> l.nl, depth |-> d])
  /\ UNCHANGED <<op, callgraph, classes, functions, chunks, results>>
  /\ UNCHANGED <<nodeVars, rankVars, rag_paths>>
  /\ UNCHANGED <<searchVars, batchVars>>

ParseCalls == Provide(CallLabels)
ParseSource == Provide(StmtLabels)
ParseCoord == Provide(CoordLabels)

\* /api/callgraph
ExtractCallGraph ==
  /\ op = "source"
  /\ callgraph' = extract_function_calls(tree)
  /\ op' = "callgraph"
  /\ UNCHANGED <<tree, classes, functions, chunks, results>>
  /\ UNCHANGED <<nodeVars, rankVars, rag_paths>>
  /\ UNCHANGED <<searchVars, batchVars>>

\* /api/analyze: the three extractors on one tree
AnalyzeCode ==
  /\ op = "source"
  /\ classes' = extract_classes_from_ast(tree)
  /\ functions' = extract_functions_from_ast(tree)
  /\ callgraph' = extract_function_calls(tree)
  /\ op' = "analyzed"
  /\ UNCHANGED <<tree, chunks, results>>
  /\ UNCHANGED <<nodeVars, rankVars, rag_paths>>
  /\ UNCHANGED <<searchVars, batchVars>>

\* chunk_code_by_ast on source that parses
ChunkCode ==
  /\ op = "source"
  /\ chunks' = chunk_code_by_ast(tree)
  /\ op' = "chunked"
  /\ UNCHANGED <<tree, callgraph, classes, functions, results>>
  /\ UNCHANGED <<nodeVars, rankVars, rag_paths>>
  /\ UNCHANGED <<searchVars, batchVars>>

\* /api/rag-query without the ranking (steps 1-2 and 5-7), every chunk
\* taken as a search result: the source is chunked, each result is given
\* its coordinate, the extractors run and the results are matched to the
\* call graph
EnhanceRagResults ==
  /\ op = "source"
  /\ chunks' = chunk_code_by_ast(tree)
  /\ results' = EnhanceAll(chunks', tree, create_line_to_ast_mapping(tree))
  /\ classes' = extract_classes_from_ast(tree)
  /\ functions' = extract_functions_from_ast(tree)
  /\ callgraph' = extract_function_calls(tree)
  /\ rag_paths' = find_paths_between_rag_nodes(results', callgraph'.functions,
                                               callgraph'.calls, max_depth_default)
  /\ op' = "rag"
  /\ UNCHANGED tree
  /\ UNCHANGED <<nodeVars, rankVars>>
  /\ UNCHANGED <<searchVars, batchVars>>

NextCalls == ParseCalls \/ ExtractCallGraph
SpecCalls == Init /\ [][NextCalls]_vars

NextCoord == ParseCoord \/ AnalyzeCode \/ EnhanceRagResults
SpecCoord == Init /\ [][NextCoord]_vars

NextChunk == ParseSource \/ ChunkCode
SpecChunk == Init /\ [][NextChunk]_vars

\* ------------------------------------------------ create_ast_reference alone
\* a node of the tree is handed over, built by hand or by the parser
BuildNode ==
  /\ op = "source"
  /\ Len(nodes) < MaxPairNodes
  /\ \E n \in NodeAttrs : nodes' = Append(nodes, n)
  /\ UNCHANGED <<op, refs, treeVars, rankVars, rag_paths>>
  /\ UNCHANGED <<searchVars, batchVars>>

\* create_ast_reference(node) on each of them
CreateReferences ==
  /\ op = "source"
  /\ nodes # <<>>
  /\ refs' = [j \in 1..Len(nodes) |-> AstRef(nodes[j], get_node_path(nodes[j]))]
  /\ op' = "referenced"
  /\ UNCHANGED <<nodes, treeVars, rankVars, rag_paths>>
  /\ UNCHANGED <<searchVars, batchVars>>

NextNode == BuildNode \/ CreateReferences
SpecNode == Init /\ [][NextNode]_vars

\* -------------------------------------------------------------- the ranker
\* the embedding capability scores the next chunk against the query
ScoreChunk ==
  /\ op = "source"
  /\ Len(similarities) < MaxChunks
  /\ \E v \in SimilarityValues : similarities' = Append(similarities, v)
  /\ UNCHANGED <<op, top_k, search_results, treeVars, nodeVars, rag_paths>>
  /\ UNCHANGED <<searchVars, batchVars>>

\* semantic_search(query, code_chunks, embeddings, top_k)
SemanticSearch ==
  /\ op = "source"
  /\ \E k \in 1..MaxTopK : \E argsort \in ArgSorts(similarities) :
       /\ top_k' = k
       /\ search_results' = semantic_search(similarities, argsort, k)
  /\ op' = "searched"
  /\ UNCHANGED <<similarities, treeVars, nodeVars, rag_paths>>
  /\ UNCHANGED <<searchVars, batchVars>>

NextRank == ScoreChunk \/ SemanticSearch
SpecRank == Init /\ [][NextRank]_vars

\* ---------------------------------------------------------- the path engine
\* extract_function_calls meets the next top-level definition
RecordFunction ==
  /\ op = "source"
  /\ callgraph.calls = <<>>
  /\ Len(callgraph.functions) < Len(PathNames)
  /\ callgraph' = [callgraph EXCEPT !.functions =
                     Append(@, PathFunction(PathNames[Len(@) + 1]))]
  /\ UNCHANGED <<op, tree, classes, functions, chunks, results>>
  /\ UNCHANGED <<nodeVars, rankVars, rag_paths>>
  /\ UNCHANGED <<searchVars, batchVars>>

Recorded == {callgraph.functions[k].name : k \in 1..Len(callgraph.functions)}

\* extract_function_calls meets a call: the edge is appended and the
\* caller's summary gets the callee if it is new
RecordCallUpTo(most) ==
  /\ op = "source"
  /\ Len(callgraph.calls) < most
  /\ \E caller \in Recorded \cup {GLOBAL}, callee \in Range(PathNames) :
       callgraph' =
         [functions |->
            [k \in 1..Len(callgraph.functions) |->
               IF callgraph.functions[k].name = caller
                  /\ callee \notin Range(callgraph.functions[k].calls)
               THEN [callgraph.functions[k] EXCEPT !.calls = Append(@, callee)]
               ELSE callgraph.functions[k]],
          calls |-> Append(callgraph.calls,
                           [caller |-> caller, callee |-> callee,
                            lineno |-> PathLine(caller) + Len(callgraph.calls) + 1])]
  /\ UNCHANGED <<op, tree, classes, functions, chunks, results>>
  /\ UNCHANGED <<nodeVars, rankVars, rag_paths>>
  /\ UNCHANGED <<searchVars, batchVars>>

RecordCall == RecordCallUpTo(MaxCalls)

\* step 6 of /api/rag-query: the retrieved definitions are matched to the
\* call graph and the paths between them are searched
FindPaths ==
  /\ op = "source"
  /\ \E retrieved \in SUBSET Recorded :
       results' = SelectSeq([k \in 1..Len(PathNames) |-> PathResult(PathNames[k])],
                            LAMBDA r : r.name \in retrieved)
  /\ rag_paths' = find_paths_between_rag_nodes(results', callgraph.functions,
                                               callgraph.calls, max_depth_default)
  /\ op' = "paths"
  /\ UNCHANGED <<tree, callgraph, classes, functions, chunks>>
  /\ UNCHANGED <<nodeVars, rankVars>>
  /\ UNCHANGED <<searchVars, batchVars>>

NextPath == RecordFunction \/ RecordCall \/ FindPaths
SpecPath == Init /\ [][NextPath]_vars

\* ------------------------------------------------ the path engine, far apart
\* extract_function_calls meets the next top-level definition of a file
\* whose functions form a chain: the new function calls the one before it
\* or is called by it
ExtendChain ==
  /\ op = "source"
  /\ Len(callgraph.functions) < MaxChain
  /\ Len(callgraph.calls) = (IF callgraph.functions = <<>> THEN 0
                             ELSE Len(callgraph.functions) - 1)
  /\ LET n == Len(callgraph.functions)
         defined == [callgraph EXCEPT !.functions = Append(@, ChainFunction(n + 1))]
     IN IF n = 0 THEN callgraph' = defined
        ELSE \E forward \in BOOLEAN :
               callgraph' = IF forward THEN WithChainCall(defined, n, n + 1)
                            ELSE WithChainCall(defined, n + 1, n)
  /\ UNCHANGED <<op, tree, classes, functions, chunks, results>>
  /\ UNCHANGED <<nodeVars, rankVars, rag_paths>>
  /\ UNCHANGED <<searchVars, batchVars>>

\* one more call between two functions of the chain, a recursive call
\* included
RecordChord ==
  /\ op = "source"
  /\ callgraph.functions # <<>>
  /\ Len(callgraph.calls) = Len(callgraph.functions) - 1
  /\ \E caller, callee \in 1..Len(callgraph.functions) :
       callgraph' = WithChainCall(callgraph, caller, callee)
  /\ UNCHANGED <<op, tree, classes, functions, chunks, results>>
  /\ UNCHANGED <<nodeVars, rankVars, rag_paths>>
  /\ UNCHANGED <<searchVars, batchVars>>

\* step 6 of /api/rag-query with two definitions retrieved, the first of
\* the file and another one
FindChainPaths ==
  /\ op = "source"
  /\ \E j \in 2..Len(callgraph.functions) :
       results' = <<ChainResult(1), ChainResult(j)>>
  /\ rag_paths' = find_paths_between_rag_nodes(results', callgraph.functions,
                                               callgraph.calls, max_depth_default)
  /\ op' = "paths"
  /\ UNCHANGED <<tree, callgraph, classes, functions, chunks>>
  /\ UNCHANGED <<nodeVars, rankVars>>
  /\ UNCHANGED <<searchVars, batchVars>>

NextDepth == ExtendChain \/ RecordChord \/ FindChainPaths
SpecDepth == Init /\ [][NextDepth]_vars

\* ------------------------------------- find_shortest_path, step by step
\* find_shortest_path(func1, func2, max_depth) is entered for a pair of
\* matched functions: queue = deque([(start_func, [], 0)])
StartSearch ==
  /\ op = "source"
  /\ \E start_func, end \in Recorded :
       /\ start_func # end
       /\ queue' = <<[node |-> start_func, path |-> <<>>, depth |-> 0]>>
       /\ visited' = {start_func}
       /\ enqueued' = <<start_func>>
       /\ end_func' = end
  /\ op' = "searching"
  /\ UNCHANGED <<found_path, treeVars, nodeVars, rankVars, rag_paths, batchVars>>

\* one iteration of the while loop: popleft, the depth test, the for loop
SearchStep ==
  /\ op = "searching"
  /\ queue # <<>>
  /\ LET cur == Head(queue)
         r == scan_edges(edges_to_check(callgraph.calls, cur.node), cur, end_func,
                         Tail(queue), visited)
         appended == SubSeq(r.queue, Len(queue), Len(r.queue))
     IN IF DepthReached(cur.depth, max_depth_default)
        THEN /\ queue' = Tail(queue)
             /\ UNCHANGED <<op, visited, enqueued, found_path>>
        ELSE /\ queue' = r.queue
             /\ visited' = r.visited
             /\ enqueued' = enqueued \o [k \in 1..Len(appended) |-> appended[k].node]
             /\ op' = IF r.found THEN "found" ELSE op
             /\ found_path' = IF r.found THEN <<r.path>> ELSE found_path
  /\ UNCHANGED <<end_func, treeVars, nodeVars, rankVars, rag_paths, batchVars>>

\* the queue is empty: return None
SearchExhausted ==
  /\ op = "searching"
  /\ queue = <<>>
  /\ op' = "nopath"
  /\ UNCHANGED <<queue, visited, enqueued, end_func, found_path>>
  /\ UNCHANGED <<treeVars, nodeVars, rankVars, rag_paths, batchVars>>

RecordSearchCall == RecordCallUpTo(MaxSearchCalls)

\* the loop of find_shortest_path
Search == SearchStep \/ SearchExhausted

NextSearch == RecordFunction \/ RecordSearchCall \/ StartSearch \/ Search
\* the interpreter keeps running the loop it has entered
SpecSearch == Init /\ [][NextSearch]_vars /\ WF_vars(Search)

\* ------------------------------------------------- requests over a file set
\* find_python_files meets the next file of the directory
FindFile ==
  /\ op = "source"
  /\ Len(files) < MaxFiles
  /\ \E file \in FileContents : files' = Append(files, file)
  /\ UNCHANGED <<op, model, response, treeVars, nodeVars, rankVars, rag_paths, searchVars>>

\* POST /api/analyze-codebase
AnalyzeCodebase ==
  /\ op = "source"
  /\ \E directory_path \in Directories :
       response' = analyze_codebase(directory_path, files)
  /\ op' = "analyze-codebase"
  /\ UNCHANGED <<files, model, treeVars, nodeVars, rankVars, rag_paths, searchVars>>

\* the module is imported: the embedding model is loaded, or model = None
LoadModel ==
  /\ op = "source"
  /\ model = "unloaded"
  /\ model' \in {"loaded", None}
  /\ UNCHANGED <<op, files, response, treeVars, nodeVars, rankVars, rag_paths, searchVars>>

\* POST /api/rag-query
RagQuery ==
  /\ op = "source"
  /\ model # "unloaded"
  /\ \E code \in Codes, query \in Queries :
       \E sims \in Similarities(ChunkContents(chunk_code_by_ast(code.tree))) :
         \E order \in DescendingOrders(sims, 1..Len(sims)) :
           response' = rag_query(code, query, model, sims, order)
  /\ op' = "rag-query"
  /\ UNCHANGED <<files, model, treeVars, nodeVars, rankVars, rag_paths, searchVars>>

\* POST /api/rag-query-codebase
RagQueryCodebase ==
  /\ op = "source"
  /\ model # "unloaded"
  /\ \E directory_path \in Directories, query \in Queries :
       \E sims \in Similarities(ChunkContents(CollectChunks(files, 1, <<>>))) :
         \E order \in DescendingOrders(sims, 1..Len(sims)) :
           response' = rag_query_codebase(directory_path, query, files, model, sims, order)
  /\ op' = "rag-query-codebase"
  /\ UNCHANGED <<files, model, treeVars, nodeVars, rankVars, rag_paths, searchVars>>

NextBatch == LoadModel \/ FindFile \/ AnalyzeCodebase \/ RagQuery \/ RagQueryCodebase
SpecBatch == Init /\ [][NextBatch]_vars

\* ---------------------------------------------------------------- claims
\* the nearest proper ancestor of node i whose kind is in K, 0 when none
RECURSIVE Enclosing(_, _, _)
Enclosing(t, i, K) ==
  IF i = 0 THEN 0
  ELSE LET p == Parent(t, i)
       IN IF p = 0 THEN 0
          ELSE IF t[p].kind \in K THEN p ELSE Enclosing(t, p, K)

\* the identifier of FunctionDef f read off its ancestors
IdentOf(t, f) ==
  LET c == Enclosing(t, f, {"ClassDef"})
  IN IF c = 0 THEN t[f].name ELSE t[c].name \o "." \o t[f].name

InFunction(t, i) == t[i].kind = "Call" /\ Enclosing(t, i, {"FunctionDef"}) # 0

EdgeOf(t, i) ==
  [caller |-> IdentOf(t, Enclosing(t, i, {"FunctionDef"})),
   callee |-> get_full_name(t[i].func), lineno |-> Line(t, i)]

\* the calls inside functions, in pre-order, each with its expected edge
ExpectedFunctionEdges(t) ==
  LET idx == SelectSeq([j \in 1..Len(t) |-> j], LAMBDA j : InFunction(t, j))
  IN [k \in 1..Len(idx) |-> EdgeOf(t, idx[k])]

FunctionEdges(cg) == SelectSeq(cg.calls, LAMBDA e : e.caller # GLOBAL)

\* C4: every Call inside a FunctionDef gives one edge whose caller is the
\* identifier of the innermost enclosing FunctionDef (ClassName.funcName in
\* a class, bare funcName otherwise), whose callee is the resolved name and
\* whose line is the call's line, in pre-order; the context is restored on
\* leaving a class or a function.
C4_CallerOfEveryCall ==
  op = "callgraph" => FunctionEdges(callgraph) = ExpectedFunctionEdges(tree)

\* def a(): b()  followed by  def c(): a(), each body on its own line
ExampleTree ==
  << [kind |-> "FunctionDef", name |-> "a", func |-> <<>>, nl |-> TRUE, depth |-> 1],
     [kind |-> "Call", name |-> "", func |-> <<"b">>, nl |-> TRUE, depth |-> 2],
     [kind |-> "FunctionDef", name |-> "c", func |-> <<>>, nl |-> TRUE, depth |-> 1],
     [kind |-> "Call", name |-> "", func |-> <<"a">>, nl |-> TRUE, depth |-> 2] >>

C4_Witness ==
  /\ op = "callgraph"
  /\ tree = ExampleTree
  /\ callgraph.calls = << [caller |-> "a", callee |-> "b", lineno |-> 2],
                          [caller |-> "c", callee |-> "a", lineno |-> 4] >>
  /\ \E j \in 1..Len(callgraph.functions) :
       callgraph.functions[j].name = "c" /\ callgraph.functions[j].calls = <<"a">>

\* the first occurrences of the elements of s, in order
RECURSIVE Distinct(_)
Distinct(s) ==
  IF s = <<>> THEN <<>>
  ELSE LET front == Distinct(SubSeq(s, 1, Len(s) - 1))
       IN IF s[Len(s)] \in Range(front) THEN front ELSE Append(front, s[Len(s)])

\* the callees of the calls whose innermost enclosing FunctionDef is f
CalleesOf(t, f) ==
  LET idx == SelectSeq([j \in 1..Len(t) |-> j],
                       LAMBDA j : t[j].kind = "Call" /\ Enclosing(t, j, {"FunctionDef"}) = f)
  IN [k \in 1..Len(idx) |-> get_full_name(t[idx[k]].func)]

Count(s, P(_)) == Cardinality({j \in 1..Len(s) : P(s[j])})

\* the call-graph records of FunctionDef f
RecordsOf(cg, t, f) ==
  {j \in 1..Len(cg.functions) :
     /\ cg.functions[j].name = t[f].name
     /\ cg.functions[j].lineno = Line(t, f)}

\* C5: when a function body calls the same callee n times, the edge list
\* keeps all n edges, and that function's calls summary lists each callee
\* exactly once, in order of first occurrence.
C5_EdgesKeptSummaryDeduplicated ==
  op = "callgraph" =>
    \A f \in 1..Len(tree) :
      (tree[f].kind = "FunctionDef" /\ CalleesOf(tree, f) # <<>>) =>
        /\ \A c \in Range(CalleesOf(tree, f)) :
             Count(callgraph.calls,
                   LAMBDA e : e.caller = IdentOf(tree, f) /\ e.callee = c)
               >= Count(CalleesOf(tree, f), LAMBDA x : x = c)
        /\ \E j \in RecordsOf(callgraph, tree, f) :
             callgraph.functions[j].calls = Distinct(CalleesOf(tree, f))

\* the kinds of the structural proper ancestors of node i, outermost first
RECURSIVE AncestorKinds(_, _)
AncestorKinds(t, i) ==
  LET p == Parent(t, i)
  IN IF p = 0 THEN <<>>
     ELSE AncestorKinds(t, p)
            \o (IF t[p].kind \in StructuralKinds THEN <<t[p].kind>> ELSE <<>>)

\* the definition of the given kind that starts on the given line
DefAt(t, kind, line) == CHOOSE i \in 1..Len(t) : t[i].kind = kind /\ Line(t, i) = line

\* r is the coordinate that node i's own kind, position and ancestors give
RefOf(t, i, r) ==
  /\ r.node_type = t[i].kind
  /\ r.node_id = t[i].kind \o "_" \o ToString(Line(t, i)) \o "_" \o ToString(Col(t, i))
  /\ r.line = Line(t, i) /\ r.col = <<Col(t, i)>>
  /\ r.end_line = EndLine(t, i) /\ r.end_col = <<EndCol(t, i)>>
  /\ r.node_path = <<"Module">> \o AncestorKinds(t, i)

MethodRefs(cs) ==
  UNION { { cs[c].methods[k] : k \in 1..Len(cs[c].methods) } : c \in 1..Len(cs) }

\* C1: the coordinate a retrieval result gets for a function node equals,
\* field by field, the coordinate of that node's call-graph record and of
\* its standalone-function record.
C1_RagCoordinateEqualsRecordCoordinate ==
  op = "rag" =>
    \A k \in 1..Len(results) :
      (results[k].type = "function" /\ results[k].ast_ref # <<>>) =>
        /\ \A j \in 1..Len(callgraph.functions) :
             (callgraph.functions[j].lineno = results[k].line_start
              /\ callgraph.functions[j].name = results[k].name)
               => results[k].ast_ref[1] = callgraph.functions[j].ast_ref
        /\ \A j \in 1..Len(functions) :
             (functions[j].lineno = results[k].line_start
              /\ functions[j].name = results[k].name)
               => results[k].ast_ref[1] = functions[j].ast_ref

\* C2: every coordinate create_ast_reference(node, tree) returns is fixed
\* by the node's kind, positions and structural ancestors, so the class,
\* function and call-graph traversals give one node the same coordinate.
C2_CoordinateStable ==
  op = "analyzed" =>
    /\ \A c \in 1..Len(classes) :
         RefOf(tree, DefAt(tree, "ClassDef", classes[c].lineno), classes[c].ast_ref)
    /\ \A m \in MethodRefs(classes) :
         /\ m.ast_ref # <<>>
         /\ RefOf(tree, DefAt(tree, "FunctionDef", m.lineno), m.ast_ref[1])
         /\ \A j \in 1..Len(callgraph.functions) :
              callgraph.functions[j].lineno = m.lineno
                => callgraph.functions[j].ast_ref = m.ast_ref[1]
    /\ \A f \in 1..Len(functions) :
         /\ RefOf(tree, DefAt(tree, "FunctionDef", functions[f].lineno), functions[f].ast_ref)
         /\ \A j \in 1..Len(callgraph.functions) :
              callgraph.functions[j].lineno = functions[f].lineno
                => callgraph.functions[j].ast_ref = functions[f].ast_ref
    /\ \A j \in 1..Len(callgraph.functions) :
         RefOf(tree, DefAt(tree, "FunctionDef", callgraph.functions[j].lineno),
               callgraph.functions[j].ast_ref)

\* a method seen by the class traversal and by the call-graph traversal,
\* after an earlier sibling definition was searched
C2_Witness ==
  /\ op = "analyzed"
  /\ \E m \in MethodRefs(classes) : \E j \in 1..Len(callgraph.functions) :
       /\ m.lineno > 2
       /\ callgraph.functions[j].lineno = m.lineno
       /\ m.ast_ref # <<>>
       /\ callgraph.functions[j].ast_ref = m.ast_ref[1]
       /\ m.ast_ref[1].node_path = <<"Module", "ClassDef">>
       /\ tree[1].kind = "FunctionDef"

DefNodes(t) == {i \in 1..Len(t) : t[i].kind \in {"FunctionDef", "ClassDef"}}
ChunksOf(t, i, cs) ==
  {k \in 1..Len(cs) :
     /\ cs[k].type = (IF t[i].kind = "FunctionDef" THEN "function" ELSE "class")
     /\ cs[k].name = t[i].name
     /\ cs[k].line_start = Line(t, i)
     /\ cs[k].line_end = EndLine(t, i)}
GlobalChunks(cs) == {k \in 1..Len(cs) : cs[k].type = "global"}

\* C6: for source that parses there is exactly one chunk per FunctionDef
\* and per ClassDef, nested ones included, spanning the definition's first
\* to last line, plus at most one global chunk; the chunk count is the
\* number of definitions plus one exactly when a global chunk is emitted.
C6_ChunkCoverage ==
  op = "chunked" =>
    /\ \A i \in DefNodes(tree) : Cardinality(ChunksOf(tree, i, chunks)) = 1
    /\ Cardinality(GlobalChunks(chunks)) <= 1
    /\ Len(chunks) = Cardinality(DefNodes(tree)) + Cardinality(GlobalChunks(chunks))

\* a class, a method nested in it and a global statement
C6_Witness ==
  /\ op = "chunked"
  /\ Len(chunks) = 3
  /\ GlobalChunks(chunks) = {3}
  /\ \E i, j \in DefNodes(tree) :
       /\ tree[i].kind = "ClassDef" /\ tree[j].kind = "FunctionDef" /\ Parent(tree, j) = i
       /\ ChunksOf(tree, i, chunks) = {1} /\ ChunksOf(tree, j, chunks) = {2}

Triple(n) == <<n.kind, n.lineno, n.col_offset>>

Returned(res) == {res[k].index : k \in 1..Len(res)}
AboveFloor(sims) == {i \in 1..Len(sims) : sims[i] > Floor}
MinOf(a, b) == IF a < b THEN a ELSE b

\* C7: semantic_search returns exactly the min(top_k, m) highest chunks
\* among the m chunks whose similarity is strictly above 0.1, in descending
\* order of similarity; a chunk at exactly 0.1 is never returned.
C7_FloorAndCap ==
  op = "searched" =>
    /\ Len(search_results) = MinOf(top_k, Cardinality(AboveFloor(similarities)))
    /\ Cardinality(Returned(search_results)) = Len(search_results)
    /\ Returned(search_results) \subseteq AboveFloor(similarities)
    /\ \A k \in 1..Len(search_results) :
         /\ search_results[k].score = similarities[search_results[k].index]
         /\ k > 1 => search_results[k - 1].score >= search_results[k].score
    /\ \A i \in AboveFloor(similarities) \ Returned(search_results) :
         \A k \in 1..Len(search_results) : similarities[i] <= search_results[k].score

\* similarities [0.9, 0.5, 0.05, 0.3] with top_k = 2 give 0.9, 0.5
C7_Witness ==
  /\ op = "searched"
  /\ similarities = <<90, 50, 5, 30>>
  /\ top_k = 2
  /\ search_results = <<[score |-> 90, index |-> 1], [score |-> 50, index |-> 2]>>

PositionOf(res, i) == CHOOSE k \in 1..Len(res) : res[k].index = i

\* C8: of two chunks with equal similarity the earlier one of the chunk
\* list is ranked first, and is the one kept when top_k cuts between them.
C8_TiesInChunkOrder ==
  op = "searched" =>
    \A i, j \in 1..Len(similarities) :
      (i < j /\ similarities[i] = similarities[j] /\ j \in Returned(search_results)) =>
        /\ i \in Returned(search_results)
        /\ PositionOf(search_results, i) < PositionOf(search_results, j)

Paths == Range(rag_paths.paths)
FollowedForward(e) ==
  [caller |-> e.from, callee |-> e.to, lineno |-> e.call_line] \in Range(callgraph.calls)
FollowedBackward(e) ==
  [caller |-> e.to, callee |-> e.from, lineno |-> e.call_line] \in Range(callgraph.calls)

\* C9: a path record has type caller_to_callee exactly when every edge of
\* it is a call from its source to its target, callee_to_caller exactly
\* when every edge is a call from its target to its source, and
\* bidirectional otherwise.
C9_PathTypeIsDirection ==
  op = "paths" =>
    \A p \in Paths :
      LET forward == \A e \in Range(p.path_edges) : FollowedForward(e)
          backward == \A e \in Range(p.path_edges) : FollowedBackward(e)
      IN /\ \A e \in Range(p.path_edges) : FollowedForward(e) # FollowedBackward(e)
         /\ (p.path_type = "caller_to_callee") = forward
         /\ (p.path_type = "callee_to_caller") = backward
         /\ (p.path_type = "bidirectional") = (~forward /\ ~backward)

\* edges A->B and B->C only, A and C matched
C9_Witness ==
  /\ op = "paths"
  /\ [k \in 1..Len(callgraph.calls) |->
        <<callgraph.calls[k].caller, callgraph.calls[k].callee>>]
       = <<<<"A", "B">>, <<"B", "C">>>>
  /\ Len(rag_paths.matched_nodes) = 2
  /\ \E p \in Paths :
       /\ p.from_node = "A" /\ p.to_node = "C"
       /\ p.path_type = "caller_to_callee"
       /\ p.path_nodes = <<"B">> /\ p.path_length = 2
  /\ \E p \in Paths :
       /\ p.from_node = "C" /\ p.to_node = "A"
       /\ p.path_type = "callee_to_caller"
       /\ p.path_nodes = <<"B">> /\ p.path_length = 2

GraphNodes == Range(PathNames) \cup {GLOBAL}
Neighbours(S) ==
  S \cup {c.callee : c \in {c \in Range(callgraph.calls) : c.caller \in S}}
    \cup {c.caller : c \in {c \in Range(callgraph.calls) : c.callee \in S}}
RECURSIVE Within(_, _)
Within(a, n) == IF n = 0 THEN {a} ELSE Neighbours(Within(a, n - 1))
\* the fewest hops from a to b over calls taken in either direction
Hops(a, b) ==
  CHOOSE n \in 0..Cardinality(GraphNodes) :
    /\ b \in Within(a, n)
    /\ \A k \in 0..(n - 1) : b \notin Within(a, k)

\* C10: the path_length of an emitted record is the fewest hops between
\* its two ends in the call graph with every call usable in both directions.
C10_PathLengthIsShortest ==
  op = "paths" =>
    \A p \in Paths :
      /\ p.to_node \in Within(p.from_node, Cardinality(GraphNodes))
      /\ p.path_length = Hops(p.from_node, p.to_node)

\* calls A->B, B->C, C->A: from A to C the one-hop route against the call
\* C->A is reported, not the two-hop chain of calls
C10_Witness ==
  /\ op = "paths"
  /\ [k \in 1..Len(callgraph.calls) |->
        <<callgraph.calls[k].caller, callgraph.calls[k].callee>>]
       = <<<<"A", "B">>, <<"B", "C">>, <<"C", "A">>>>
  /\ \E p \in Paths :
       /\ p.from_node = "A" /\ p.to_node = "C"
       /\ p.path_length = 1 /\ p.path_type = "callee_to_caller"

\* the identifiers of the matched records
MatchedNames ==
  {callgraph.functions[k].name :
     k \in {k \in 1..Len(callgraph.functions) :
              callgraph.functions[k].ast_ref.node_id \in Range(rag_paths.matched_nodes)}}

\* C11: with max_depth = 5 a path record is emitted for an ordered pair of
\* distinct matched identifiers exactly when the two are at most 5 hops apart
\* over calls taken in either direction, and no record is longer than 5.
C11_EmittedIffWithinDepth ==
  op = "paths" =>
    /\ \A a, b \in MatchedNames :
         a # b =>
           ((\E p \in Paths : p.from_node = a /\ p.to_node = b)
              <=> b \in Within(a, max_depth_default))
    /\ \A p \in Paths : p.path_length <= max_depth_default

\* a record of exactly 5 hops
C11_Witness ==
  /\ op = "paths"
  /\ \E p \in Paths :
       /\ p.path_length = max_depth_default
       /\ p.to_node \notin Within(p.from_node, max_depth_default - 1)

SearchOver == op \in {"found", "nopath"}
NoRepeats(s) == \A i, j \in 1..Len(s) : i # j => s[i] # s[j]

\* C12: a search that has been entered ends, with a path or with none, on
\* graphs with cycles, recursive calls and repeated calls; while it runs no
\* node is put on the queue twice; its answer is the one of
\* find_shortest_path.
C12_SearchTerminates ==
  /\ [](NoRepeats(enqueued))
  /\ [](SearchOver =>
          found_path = find_shortest_path(callgraph.calls, enqueued[1], end_func,
                                          max_depth_default))
  /\ (op = "searching") ~> SearchOver

\* calls A->B, B->A: a cycle, C not connected; the search from A for C
\* has ended with no path after A and B were queued once each
C12_Witness ==
  /\ op = "nopath"
  /\ [k \in 1..Len(callgraph.calls) |->
        <<callgraph.calls[k].caller, callgraph.calls[k].callee>>]
       = <<<<"A", "B">>, <<"B", "A">>>>
  /\ enqueued = <<"A", "B">>
  /\ end_func = "C"

Failing(k) == files[k].state \in {"unreadable", "invalid"}
Analysed == op = "analyze-codebase" /\ response.status = 200 /\ files # <<>>
FileIndex(path) == CHOOSE k \in 1..Len(files) : FilePath(k) = path
\* the records of the k-th file in a combined collection
OfFile(records, k) == SelectSeq(records, LAMBDA r : r.file_path = FilePath(k))
\* the collection holds, file after file, what extracted gives for each
\* Python file and nothing of the other files
Combines(records, extracted(_)) ==
  /\ \A i \in 1..Len(records) :
       /\ \E k \in 1..Len(files) : records[i].file_path = FilePath(k)
       /\ i > 1 => FileIndex(records[i - 1].file_path) <= FileIndex(records[i].file_path)
  /\ \A k \in 1..Len(files) :
       OfFile(records, k) =
         IF files[k].state = "python"
         THEN WithFilePath(extracted(files[k].tree), FilePath(k))
         ELSE <<>>

\* C13: each file that cannot be read or parsed gives exactly one errors
\* entry naming it and no record in a combined collection; the classes,
\* functions and call edges of every other non-empty file are in the
\* combined collections in file-list order, also after a failing file.
C13_BatchPartialFailure ==
  Analysed =>
    /\ [i \in 1..Len(response.errors) |-> response.errors[i].file]
         = SelectSeq([k \in 1..Len(files) |-> FilePath(k)],
                     LAMBDA path : Failing(FileIndex(path)))
    /\ Combines(response.combined_analysis.inheritance.classes, extract_classes_from_ast)
    /\ Combines(response.combined_analysis.inheritance.functions, extract_functions_from_ast)
    /\ Combines(response.combined_analysis.callgraph.functions,
                LAMBDA t : extract_function_calls(t).functions)
    /\ Combines(response.combined_analysis.callgraph.calls,
                LAMBDA t : extract_function_calls(t).calls)

\* a file with a syntax error before the file  def a(): c()
C13_Witness ==
  /\ Analysed
  /\ Len(files) = 2
  /\ files[1].state = "invalid"
  /\ files[2].state = "python"
  /\ Len(response.errors) = 1
  /\ response.errors[1].file = "f1.py"
  /\ Len(response.combined_analysis.callgraph.calls) = 1
  /\ response.combined_analysis.callgraph.calls[1].file_path = "f2.py"

\* the nodes of kind FunctionDef outside every class, in pre-order
StandaloneDefs(t) ==
  SelectSeq([j \in 1..Len(t) |-> j],
            LAMBDA j : t[j].kind = "FunctionDef" /\ Enclosing(t, j, {"ClassDef"}) = 0)

\* C15: extract_functions_from_ast reports one record for each FunctionDef
\* that is not inside a ClassDef, at module level, in a block or nested in
\* another function, and no record for a FunctionDef inside a class body.
C15_StandaloneFunctionsReported ==
  op = "analyzed" =>
    [f \in 1..Len(functions) |-> <<functions[f].name, functions[f].lineno>>]
      = [k \in 1..Len(StandaloneDefs(tree)) |->
           <<tree[StandaloneDefs(tree)[k]].name, Line(tree, StandaloneDefs(tree)[k])>>]

ClassDefs(t) == SelectSeq([j \in 1..Len(t) |-> j], LAMBDA j : t[j].kind = "ClassDef")
\* the FunctionDef nodes directly in the body of class c, in body order
BodyDefs(t, c) ==
  SelectSeq([j \in 1..Len(t) |-> j],
            LAMBDA j : t[j].kind = "FunctionDef" /\ Parent(t, j) = c)

\* C18: extract_classes_from_ast returns one record per ClassDef of the
\* tree in pre-order, classes nested in classes or functions included, and
\* the methods of a record are the FunctionDef nodes directly in that
\* class's body, in body order, never a function nested deeper.
C18_OneRecordPerClass ==
  op = "analyzed" =>
    /\ [c \in 1..Len(classes) |-> <<classes[c].name, classes[c].lineno>>]
         = [k \in 1..Len(ClassDefs(tree)) |->
              <<tree[ClassDefs(tree)[k]].name, Line(tree, ClassDefs(tree)[k])>>]
    /\ \A c \in 1..Len(classes) :
         [m \in 1..Len(classes[c].methods) |->
            <<classes[c].methods[m].name, classes[c].methods[m].lineno>>]
           = [k \in 1..Len(BodyDefs(tree, ClassDefs(tree)[c])) |->
                <<tree[BodyDefs(tree, ClassDefs(tree)[c])[k]].name,
                  Line(tree, BodyDefs(tree, ClassDefs(tree)[c])[k])>>]

\* class A: / def f(): / class A: / def f(): the inner class is in its
\* outer class's method; each record lists its own method only
C18_Witness ==
  /\ op = "analyzed"
  /\ [i \in 1..Len(tree) |-> <<tree[i].kind, tree[i].depth>>]
       = <<<<"ClassDef", 1>>, <<"FunctionDef", 2>>, <<"ClassDef", 3>>, <<"FunctionDef", 4>>>>
  /\ Len(classes) = 2
  /\ [m \in 1..Len(classes[1].methods) |-> classes[1].methods[m].lineno] = <<2>>
  /\ [m \in 1..Len(classes[2].methods) |-> classes[2].methods[m].lineno] = <<4>>

\* the calls outside every FunctionDef, in pre-order, as global edges
ExpectedGlobalEdges(t) ==
  LET idx == SelectSeq([j \in 1..Len(t) |-> j],
                       LAMBDA j : t[j].kind = "Call" /\ Enclosing(t, j, {"FunctionDef"}) = 0)
  IN [k \in 1..Len(idx) |->
        [caller |-> GLOBAL, callee |-> get_full_name(t[idx[k]].func),
         lineno |-> Line(t, idx[k])]]

GlobalEdges(cg) == SelectSeq(cg.calls, LAMBDA e : e.caller = GLOBAL)

\* C19: every Call that is in no FunctionDef (module level, in a block, in
\* a class body outside its methods) gives one edge with caller __global__,
\* and no Call inside a FunctionDef body gives a __global__ edge.
C19_GlobalEdges ==
  op = "callgraph" => GlobalEdges(callgraph) = ExpectedGlobalEdges(tree)

\* class A: / a() / def a(): / b(): the call in the class body is global,
\* the call in the method is not
C19_Witness ==
  /\ op = "callgraph"
  /\ [i \in 1..Len(tree) |-> <<tree[i].kind, tree[i].depth>>]
       = <<<<"ClassDef", 1>>, <<"Call", 2>>, <<"FunctionDef", 2>>, <<"Call", 3>>>>
  /\ GlobalEdges(callgraph) = <<[caller |-> GLOBAL, callee |-> get_full_name(tree[2].func),
                                 lineno |-> 2]>>
  /\ Len(callgraph.calls) = 2

\* the stripped line texts of the import and assignment statements whose
\* line is in no function or class chunk
GlobalTexts(t, cs) ==
  { Strip(SourceLines(t)[Line(t, i)]) :
      i \in { j \in 1..Len(t) :
                /\ t[j].kind \in {"Import", "ImportFrom", "Assign"}
                /\ ~\E k \in 1..Len(cs) :
                      /\ cs[k].type \in {"function", "class"}
                      /\ cs[k].line_start <= Line(t, j) /\ Line(t, j) <= cs[k].line_end
                /\ SourceLines(t)[Line(t, j)].text # "" } }

\* C20: the content of the global chunk is the stripped first-line texts
\* of the Import/ImportFrom/Assign statements whose line is in no function
\* or class chunk, each distinct text once; the global chunk is emitted
\* exactly when there is such a text, at most once, and as the last chunk.
C20_GlobalChunkContent ==
  op = "chunked" =>
    /\ Cardinality(GlobalChunks(chunks)) <= 1
    /\ (GlobalChunks(chunks) # {}) <=> (GlobalTexts(tree, chunks) # {})
    /\ \A g \in GlobalChunks(chunks) :
         /\ g = Len(chunks)
         /\ Range(chunks[g].content) = GlobalTexts(tree, chunks)
         /\ NoRepeats(chunks[g].content)

\* x = 1 / class A: / x = 1 / x = 1: the assignment in the class is left
\* out and the two global ones give their text once
C20_Witness ==
  /\ op = "chunked"
  /\ [i \in 1..Len(tree) |-> <<tree[i].kind, tree[i].depth, tree[i].nl>>]
       = <<<<"Assign", 1, TRUE>>, <<"ClassDef", 1, TRUE>>,
           <<"Assign", 2, TRUE>>, <<"Assign", 1, TRUE>>>>
  /\ Len(chunks) = 2
  /\ chunks[1].type = "class"
  /\ chunks[2].type = "global"
  /\ chunks[2].content = <<[indent |-> 0, text |-> "x = 1"]>>

\* some call-graph record has the coordinate's node_id
MatchesById(ref) ==
  \E j \in 1..Len(callgraph.functions) : callgraph.functions[j].ast_ref.node_id = ref.node_id
\* some call-graph record's line is within 2 of the coordinate's line
MatchesByLine(ref) ==
  \E j \in 1..Len(callgraph.functions) : Abs(callgraph.functions[j].lineno - ref.line) <= 2

\* C16: a retrieval result with a coordinate is in the matched set when a
\* call-graph record has its node_id or, failing that, when a record's line
\* is within 2 of the coordinate's line; otherwise it is dropped.
C16_MatchedByIdOrLine ==
  op = "rag" =>
    \A k \in 1..Len(results) :
      results[k].ast_ref # <<>> =>
        ((results[k].ast_ref[1].node_id \in Range(rag_paths.matched_nodes))
           <=> (MatchesById(results[k].ast_ref[1]) \/ MatchesByLine(results[k].ast_ref[1])))

\* a ranking request has been answered
Ranked == op \in {"rag-query", "rag-query-codebase"}

\* C14: when the embedding model is unavailable every ranking request,
\* rag_query and rag_query_codebase, on any input, ends in a failure; none
\* returns a successful response with an empty result list.
C14_UnavailableModelFails ==
  (Ranked /\ model = None) => response.status # 200

\* the files whose errors a batch response names
NamedInErrors(resp) ==
  IF "errors" \in DOMAIN resp
  THEN {resp.errors[i].file : i \in 1..Len(resp.errors)}
  ELSE {}

\* C17: analyze_codebase and rag_query_codebase return their partial
\* results together with an errors list that names each file that could
\* not be read or parsed.
C17_BatchErrorsList ==
  (/\ op \in {"analyze-codebase", "rag-query-codebase"}
   /\ response.status = 200
   /\ \E k \in 1..Len(files) : Failing(k)) =>
    /\ "errors" \in DOMAIN response
    /\ NamedInErrors(response) = {FilePath(k) : k \in {j \in 1..Len(files) : Failing(j)}}

\* the first source line whose stripped text is the given global statement
FirstLineOf(t, statement) ==
  CHOOSE l \in 1..NumLines(t) :
    /\ Strip(SourceLines(t)[l]) = statement
    /\ \A m \in 1..(l - 1) : Strip(SourceLines(t)[m]) # statement

\* C21: the statements of the global chunk are in source order, ascending
\* line of first occurrence, also when an import or assignment sits in a
\* top-level compound statement that precedes a later top-level statement.
C21_GlobalChunkInSourceOrder ==
  op = "chunked" =>
    \A g \in GlobalChunks(chunks) :
      \A i, j \in 1..Len(chunks[g].content) :
        i < j => FirstLineOf(tree, chunks[g].content[i])
                   < FirstLineOf(tree, chunks[g].content[j])

\* C22: every path record of a pair (A, B) is well formed: its edges are a
\* chain from A to B, each edge starting where the one before it ends;
\* path_length is the number of edges and the number of intermediate nodes
\* plus one; the intermediate nodes hold neither A nor B nor a node twice.
C22_PathRecordWellFormed ==
  op = "paths" =>
    \A p \in Paths :
      /\ p.path_edges # <<>>
      /\ p.path_edges[1].from = p.from_node
      /\ p.path_edges[Len(p.path_edges)].to = p.to_node
      /\ \A k \in 1..(Len(p.path_edges) - 1) :
           p.path_edges[k].to = p.path_edges[k + 1].from
      /\ p.path_length = Len(p.path_edges)
      /\ p.path_length = Len(p.path_nodes) + 1
      /\ p.from_node \notin Range(p.path_nodes)
      /\ p.to_node \notin Range(p.path_nodes)
      /\ NoRepeats(p.path_nodes)

\* a record of three edges with two distinct intermediate nodes
C22_Witness ==
  /\ op = "paths"
  /\ \E p \in Paths :
       /\ p.path_length = 3
       /\ Len(p.path_nodes) = 2
       /\ p.path_nodes[1] # p.path_nodes[2]

\* C30: for two distinct matched identifiers A and B a path record from A
\* to B is emitted exactly when one from B to A is, and the two records
\* have the same path_length.
C30_PathsSymmetric ==
  op = "paths" =>
    /\ \A a, b \in MatchedNames :
         a # b => ((\E p \in Paths : p.from_node = a /\ p.to_node = b)
                     <=> (\E q \in Paths : q.from_node = b /\ q.to_node = a))
    /\ \A p, q \in Paths :
         (p.from_node = q.to_node /\ p.to_node = q.from_node)
           => p.path_length = q.path_length

\* two records of two edges between the same functions, one along the
\* calls and one against them
C30_Witness ==
  /\ op = "paths"
  /\ \E p, q \in Paths :
       /\ p.from_node = q.to_node /\ p.to_node = q.from_node
       /\ p.path_length = 2 /\ q.path_length = 2
       /\ p.path_type = "caller_to_callee"
       /\ q.path_type = "callee_to_caller"

\* C28: every edge of a path record and of unique_edges is a call edge of
\* the call graph with caller = from, callee = to and line = call_line, and
\* unique_edges never lists one call in both orientations.
C28_EdgesAreCallEdges ==
  op = "paths" =>
    /\ \A p \in Paths : \A k \in 1..Len(p.path_edges) : FollowedForward(p.path_edges[k])
    /\ \A e \in rag_paths.unique_edges : FollowedForward(e)
    /\ \A e, f \in rag_paths.unique_edges :
         ~(e.from # e.to /\ f.from = e.to /\ f.to = e.from /\ f.call_line = e.call_line)

FunctionDefs(t) == {i \in 1..Len(t) : t[i].kind = "FunctionDef"}

\* C25: extract_function_calls returns one record per FunctionDef of the
\* tree, methods, nested and same-named definitions included, so every
\* method of a class record and every standalone function record has a
\* call-graph record with its node_id.
C25_OneRecordPerFunctionDef ==
  op = "analyzed" =>
    /\ Len(callgraph.functions) = Cardinality(FunctionDefs(tree))
    /\ \A f \in FunctionDefs(tree) : Cardinality(RecordsOf(callgraph, tree, f)) = 1
    /\ \A m \in MethodRefs(classes) :
         m.ast_ref # <<>> =>
           \E j \in 1..Len(callgraph.functions) :
             callgraph.functions[j].ast_ref.node_id = m.ast_ref[1].node_id
    /\ \A f \in 1..Len(functions) :
         \E j \in 1..Len(callgraph.functions) :
           callgraph.functions[j].ast_ref.node_id = functions[f].ast_ref.node_id

\* C26: the calls summary of every record of extract_function_calls is
\* the distinct callees, in order of first occurrence, of the calls inside
\* that record's own definition, also with same-named or nested same-named
\* functions.
C26_SummaryOfOwnCalls ==
  op = "callgraph" =>
    \A j \in 1..Len(callgraph.functions) :
      callgraph.functions[j].calls
        = Distinct(CalleesOf(tree, DefAt(tree, "FunctionDef", callgraph.functions[j].lineno)))

CallNodes(t) == {i \in 1..Len(t) : t[i].kind = "Call"}
\* the edges recorded for the call of node i
EdgesOfCall(cg, t, i) ==
  {k \in 1..Len(cg.calls) :
     /\ cg.calls[k].lineno = Line(t, i)
     /\ cg.calls[k].callee = get_full_name(t[i].func)}

\* C27: every Call of the tree gives exactly one edge over the two passes
\* of extract_function_calls, with a function caller or with __global__, so
\* the number of edges is the number of Call expressions.
C27_OneEdgePerCall ==
  op = "callgraph" =>
    /\ Len(callgraph.calls) = Cardinality(CallNodes(tree))
    /\ \A i \in CallNodes(tree) : Cardinality(EdgesOfCall(callgraph, tree, i)) = 1

\* a call in a method and a call at module level: one edge of the method
\* from the first pass, one global edge from the second
C27_Witness ==
  /\ op = "callgraph"
  /\ [i \in 1..Len(tree) |-> <<tree[i].kind, tree[i].depth>>]
       = <<<<"ClassDef", 1>>, <<"FunctionDef", 2>>, <<"Call", 3>>, <<"Call", 1>>>>
  /\ Len(callgraph.calls) = 2
  /\ callgraph.calls[1].caller = IdentOf(tree, 2)
  /\ callgraph.calls[2].caller = GLOBAL

\* C29: the retrieval result of the global chunk never gets the coordinate
\* of a function or class definition and is never matched to a call-graph
\* record; only the result of a function chunk is matched to a record.
C29_GlobalResultNotMatched ==
  op = "rag" =>
    \A k \in 1..Len(results) :
      /\ (results[k].type = "global" /\ results[k].ast_ref # <<>>) =>
           results[k].ast_ref[1].node_type \notin {"FunctionDef", "ClassDef"}
      /\ (results[k].ast_ref # <<>> /\ MatchesById(results[k].ast_ref[1])) =>
           results[k].type = "function"

\* a codebase query has been answered with ranked results
RankedCodebase ==
  /\ op = "rag-query-codebase"
  /\ response.status = 200
  /\ "files_processed" \in DOMAIN response

\* the coordinate the result gets from the tree of the file of its chunk
OwnCoordinate(result) ==
  LET t == files[PathIndexIn(files, result.file_path)].tree
  IN enhance_rag_result_with_ast_ref([result EXCEPT !.ast_ref = <<>>], t,
                                     create_line_to_ast_mapping(t)).ast_ref

\* C23: in rag_query_codebase every result's coordinate is resolved against
\* the tree and line map of the file its chunk came from, whatever the
\* order of the ranked results over the files, never against the tree of a
\* file processed for an earlier result.
C23_CoordinateFromOwnFile ==
  RankedCodebase =>
    \A k \in 1..Len(response.results) :
      response.results[k].ast_ref = OwnCoordinate(response.results[k])

\* the first record with the coordinate's node_id, 0 when there is none
FirstRecordById(ref, records) ==
  IF \E j \in 1..Len(records) : records[j].ast_ref.node_id = ref.node_id
  THEN CHOOSE j \in 1..Len(records) :
         /\ records[j].ast_ref.node_id = ref.node_id
         /\ \A i \in 1..(j - 1) : records[i].ast_ref.node_id # ref.node_id
  ELSE 0

\* C24: with the combined call graph of several files a retrieval result
\* is matched only to a record of its own file, also when functions of
\* different files start at the same line and column.
C24_MatchedWithinOwnFile ==
  RankedCodebase =>
    \A k \in 1..Len(response.results) :
      LET result == response.results[k]
          records == response.visualization_data.callgraph.functions
      IN (result.ast_ref # <<>> /\ FirstRecordById(result.ast_ref[1], records) # 0) =>
           records[FirstRecordById(result.ast_ref[1], records)].file_path
             = result.file_path
====
